---- MODULE Spec2Model ----
(***************************************************************************)
(* A model of the a2a-bridge core: TaskManager (scripts/task_lifecycle.py) *)
(* as a lock-guarded store used by concurrent callers, and MessageClient   *)
(* (scripts/message_client.py) as a validator and dispatcher of inbound    *)
(* envelopes.                                                              *)
(*                                                                         *)
(* Python values are modelled as follows.  Optional[X] is a sequence:      *)
(* None is <<>>, a value v is <<v>>.  A dict is a function.  A float       *)
(* progress is an integer number of tenths (15 is 1.5).  A timestamp is    *)
(* the value of a non-decreasing clock.  A Task object lives in the heap   *)
(* obj under a reference; the dict self.tasks maps a key to a reference.   *)
(***************************************************************************)
EXTENDS Integers, Sequences, FiniteSets, TLC

None == <<>>
Some(v) == <<v>>

(* ---------------------------------------------------------------------- *)
(* Bounds                                                                  *)
(* ---------------------------------------------------------------------- *)
NumThreads == 2
MaxTasks == 2
MaxTime == 1

Threads == 1..NumThreads
Refs == 1..MaxTasks

(* ---------------------------------------------------------------------- *)
(* task_lifecycle.py: TaskState, Task, TaskManager                         *)
(* ---------------------------------------------------------------------- *)
CREATED == "created"
ASSIGNED == "assigned"
IN_PROGRESS == "in_progress"
COMPLETED == "completed"
FAILED == "failed"
CANCELLED == "cancelled"

TaskState == {CREATED, ASSIGNED, IN_PROGRESS, COMPLETED, FAILED, CANCELLED}

VALID_TRANSITIONS_with_retry(s) ==
    CASE s = CREATED -> {ASSIGNED, CANCELLED}
      [] s = ASSIGNED -> {IN_PROGRESS, CANCELLED, FAILED}
      [] s = IN_PROGRESS -> {COMPLETED, FAILED, CANCELLED}
      [] s = COMPLETED -> {}
      [] s = FAILED -> {ASSIGNED}
      [] s = CANCELLED -> {}

VALID_TRANSITIONS(s) ==
    CASE s = CREATED -> {ASSIGNED, CANCELLED}
      [] s = ASSIGNED -> {IN_PROGRESS, CANCELLED, FAILED}
      [] s = IN_PROGRESS -> {COMPLETED, FAILED, CANCELLED}
      [] s = COMPLETED -> {}
      [] s = FAILED -> {}
      [] s = CANCELLED -> {}

terminal_states == {COMPLETED, FAILED, CANCELLED}

assignable_states_reassign == {CREATED, ASSIGNED}

assignable_states == {CREATED}

completable_states_any_active == {CREATED, ASSIGNED, IN_PROGRESS}

completable_states == {ASSIGNED, IN_PROGRESS}

ProgressMin == 0
ProgressMax == 10

Min(a, b) == IF b < a THEN b ELSE a
Max(a, b) == IF b > a THEN b ELSE a

ClampProgress_unclamped(p) == p

ClampProgress(p) == Max(ProgressMin, Min(ProgressMax, p))

EmptyDict == <<>>

(* A str is a sequence of pieces, so that an f-string is a concatenation. *)
Str(x) == <<x>>

DictUpdate_replaces(d, p) == p

DictUpdate(d, p) ==
    [k \in (DOMAIN d) \cup (DOMAIN p) |-> IF k \in DOMAIN p THEN p[k] ELSE d[k]]

DictSet(d, k, v) ==
    [j \in (DOMAIN d) \cup {k} |-> IF j = k THEN v ELSE d[j]]

DictDel(d, k) == [j \in (DOMAIN d) \ {k} |-> d[j]]

(* Python truthiness of an Optional[dict] / Optional[int] argument. *)
TruthyDict(x) == x # None /\ x[1] # EmptyDict
TruthyInt(x) == x # None /\ x[1] # 0

Task_id_reused(id, metadata, time) ==
    [id |-> 1, state |-> CREATED, created_at |-> time, updated_at |-> time,
     assigned_to |-> None, assigned_at |-> None,
     result |-> None, completed_at |-> None,
     progress |-> 0, status_message |-> None,
     metadata |-> metadata, error |-> None, error_details |-> None]

(* Task, lines 41-78; created_at is read from the clock once and updated_at
   copies it. *)
Task(id, metadata, time) ==
    [id |-> id, state |-> CREATED, created_at |-> time, updated_at |-> time,
     assigned_to |-> None, assigned_at |-> None,
     result |-> None, completed_at |-> None,
     progress |-> 0, status_message |-> None,
     metadata |-> metadata, error |-> None, error_details |-> None]

VARIABLES
    tasks,    \* self.tasks: key -> reference of the stored Task
    obj,      \* the Task objects ever constructed: reference -> fields
    lock,     \* self.lock: None when free, Some(t) when thread t holds it
    pc,       \* per thread: the statement it is about to execute
    call,     \* per thread: the operation it runs and its arguments
    loc,      \* per thread: the local variable `task` (a reference)
    ret,      \* per thread: how its last operation ended
    now,      \* the clock datetime.utcnow() reads
    script,   \* scripted scenarios: the calls planned, the store they start from,
              \* the calls left to make and how each call ended
    message_handlers, \* MessageClient.message_handlers: type -> list of handlers
    mpc,      \* process_message: the statement it is about to execute
    message_dict,     \* process_message: its argument
    message,  \* process_message: the A2AMessage decoded from it
    idx,      \* process_message: position of the for loop in the handler list
    invoked,  \* the handlers called for this envelope so far, in call order
    outcome,  \* process_message: the dictionary it returns
    http      \* send_message: its position, the message it built, the calls of
              \* requests.post it made, what the last one gave and how it ended

taskVars == <<tasks, obj, lock, pc, call, loc, ret, now>>

NoCall ==
    [op |-> "none", id |-> 0, agent |-> "", new_state |-> "",
     progress |-> None, message |-> None, metadata |-> None,
     result |-> "", ms |-> None, reason |-> "", error |-> "", details |-> None]

NoRet == [kind |-> "none", exc |-> "", val |-> None, refs |-> {}, flag |-> FALSE]

Raised(e) == [NoRet EXCEPT !.kind = "raise", !.exc = e]
Returned(r) == [NoRet EXCEPT !.kind = "task", !.val = r]
ReturnedList(rs) == [NoRet EXCEPT !.kind = "list", !.refs = rs]
ReturnedBool(b) == [NoRet EXCEPT !.kind = "bool", !.flag = b]

(* No caller is inside an operation and the lock is free. *)
Quiet ==
    /\ lock = None
    /\ pc = [t \in Threads |-> "idle"]
    /\ call = [t \in Threads |-> NoCall]
    /\ loc = [t \in Threads |-> None]
    /\ ret = [t \in Threads |-> NoRet]
    /\ now = 0

TaskInit ==
    /\ tasks = <<>>
    /\ obj = <<>>
    /\ Quiet

LockFree_never_blocks == TRUE

(* threading.Lock: `with self.lock` blocks until the lock is free. *)
LockFree == lock = None

(* The statement at which each locking operation starts once it holds the lock. *)
Entry(op) ==
    CASE op = "create" -> "create_183"
      [] op = "assign" -> "assign_203"
      [] op = "update" -> "update_243"
      [] op = "complete" -> "complete_294"
      [] op = "cancel" -> "cancel_329"
      [] op = "fail" -> "fail_365"
      [] op = "delete" -> "delete_462"

(* datetime.utcnow(): the clock never runs backwards. *)
Tick ==
    /\ now < MaxTime
    /\ now' = now + 1
    /\ UNCHANGED <<tasks, obj, lock, pc, call, loc, ret>>
    /\ UNCHANGED <<script, message_handlers, mpc, message_dict, message, idx, invoked, outcome, http>>

(* ---------------------------------------------------------------------- *)
(* Steps of a thread                                                       *)
(* ---------------------------------------------------------------------- *)
Goto(t, l) == pc' = [pc EXCEPT ![t] = l]

Raise_keeps_lock(t, e) ==
    /\ Goto(t, "idle")
    /\ ret' = [ret EXCEPT ![t] = Raised(e)]
    /\ UNCHANGED <<tasks, obj, lock, call, loc, now>>

(* raise inside `with self.lock`: control leaves the block through __exit__. *)
Raise(t, e) ==
    /\ Goto(t, "exit")
    /\ ret' = [ret EXCEPT ![t] = Raised(e)]
    /\ UNCHANGED <<tasks, obj, lock, call, loc, now>>

Cur(t) == obj[loc[t][1]]

(* create_task, lines 171-180: the Task is constructed before the lock is taken;
   uuid4 is modelled as a token never handed out before. *)
CallCreate(t, metadata) ==
    /\ pc[t] = "idle"
    /\ Len(obj) < MaxTasks
    /\ LET r == Len(obj) + 1
       IN /\ obj' = Append(obj, Task(r, IF TruthyDict(metadata) THEN metadata[1] ELSE EmptyDict, now))
          /\ loc' = [loc EXCEPT ![t] = Some(r)]
    /\ call' = [call EXCEPT ![t] = [NoCall EXCEPT !.op = "create", !.metadata = metadata]]
    /\ ret' = [ret EXCEPT ![t] = NoRet]
    /\ Goto(t, "lock")
    /\ UNCHANGED <<tasks, lock, now>>

(* A caller enters one of the operations that start with `with self.lock`. *)
Begin(t) ==
    /\ pc[t] = "idle"
    /\ call' = [call EXCEPT ![t] = NoCall]
    /\ loc' = [loc EXCEPT ![t] = None]
    /\ ret' = [ret EXCEPT ![t] = NoRet]
    /\ Goto(t, "lock")
    /\ UNCHANGED <<tasks, obj, lock, now>>

(* `with self.lock`: __enter__.  Which operation the caller entered and its
   arguments c are bound here: nothing reads them before the lock is held.
   create_task built its Task before it came here. *)
Acquire(t, c) ==
    /\ pc[t] = "lock"
    /\ LockFree
    /\ (c.op = "create") = (call[t].op = "create")
    /\ lock' = Some(t)
    /\ call' = [call EXCEPT ![t] = c]
    /\ Goto(t, Entry(c.op))
    /\ UNCHANGED <<tasks, obj, loc, ret, now>>

(* `with self.lock`: __exit__, then the return (or the pending raise) reaches the
   caller and the frame of the call is gone. *)
Exit(t) ==
    /\ pc[t] = "exit"
    /\ lock' = None
    /\ call' = [call EXCEPT ![t] = NoCall]
    /\ loc' = [loc EXCEPT ![t] = None]
    /\ ret' = [ret EXCEPT ![t] = NoRet]
    /\ Goto(t, "idle")
    /\ UNCHANGED <<tasks, obj, now>>

StoreKey_same_slot(task) == 1

(* The key of `self.tasks[task.id] = task`, line 183. *)
StoreKey(task) == task.id

create_task(t) ==
    /\ pc[t] = "create_183"
    /\ tasks' = DictSet(tasks, StoreKey(Cur(t)), loc[t][1])
    /\ ret' = [ret EXCEPT ![t] = Returned(loc[t])]
    /\ Goto(t, "exit")
    /\ UNCHANGED <<obj, lock, call, loc, now>>

(* The statements between the legality check and the end of the `with` block,
   in program order, named by source line. *)
Body(op) ==
    CASE op = "assign" -> <<"assign_212", "assign_213", "assign_214", "assign_215">>
      [] op = "update" -> <<"update_260", "update_261", "update_263", "update_266", "update_269">>
      [] op = "complete" -> <<"complete_303", "complete_304", "complete_305", "complete_306", "complete_308">>
      [] op = "cancel" -> <<"cancel_339", "cancel_340", "cancel_341">>
      [] op = "fail" -> <<"fail_375", "fail_376", "fail_377", "fail_378">>

assign_stmt_without_touch(l, c, task, time) ==
    CASE l = "assign_212" -> [task EXCEPT !.state = ASSIGNED]
      [] l = "assign_213" -> [task EXCEPT !.assigned_to = Some(c.agent)]
      [] l = "assign_214" -> [task EXCEPT !.assigned_at = Some(time)]
      [] l = "assign_215" -> task

assign_stmt(l, c, task, time) ==
    CASE l = "assign_212" -> [task EXCEPT !.state = ASSIGNED]
      [] l = "assign_213" -> [task EXCEPT !.assigned_to = Some(c.agent)]
      [] l = "assign_214" -> [task EXCEPT !.assigned_at = Some(time)]
      [] l = "assign_215" -> [task EXCEPT !.updated_at = time]

update_stmt(l, c, task, time) ==
    CASE l = "update_260" -> [task EXCEPT !.state = c.new_state]
      [] l = "update_261" -> [task EXCEPT !.updated_at = time]
      [] l = "update_263" ->
           IF c.progress # None
           THEN [task EXCEPT !.progress = ClampProgress(c.progress[1])]
           ELSE task
      [] l = "update_266" ->
           IF c.message # None THEN [task EXCEPT !.status_message = c.message] ELSE task
      [] l = "update_269" ->
           IF c.metadata # None
           THEN [task EXCEPT !.metadata = DictUpdate(@, c.metadata[1])]
           ELSE task

complete_stmt(l, c, task, time) ==
    CASE l = "complete_303" -> [task EXCEPT !.state = COMPLETED]
      [] l = "complete_304" -> [task EXCEPT !.result = Some(c.result)]
      [] l = "complete_305" -> [task EXCEPT !.completed_at = Some(time)]
      [] l = "complete_306" -> [task EXCEPT !.updated_at = time]
      [] l = "complete_308" ->
           IF TruthyInt(c.ms)
           THEN [task EXCEPT !.metadata = DictSet(@, "execution_time_ms", c.ms[1])]
           ELSE task

cancel_stmt_bare_reason(l, c, task, time) ==
    CASE l = "cancel_339" -> [task EXCEPT !.state = CANCELLED]
      [] l = "cancel_340" -> [task EXCEPT !.status_message = Some(Str(c.reason))]
      [] l = "cancel_341" -> [task EXCEPT !.updated_at = time]

cancel_stmt(l, c, task, time) ==
    CASE l = "cancel_339" -> [task EXCEPT !.state = CANCELLED]
      [] l = "cancel_340" ->
           [task EXCEPT !.status_message = Some(Str("Cancelled: ") \o Str(c.reason))]
      [] l = "cancel_341" -> [task EXCEPT !.updated_at = time]

fail_stmt_details_as_given(l, c, task, time) ==
    CASE l = "fail_375" -> [task EXCEPT !.state = FAILED]
      [] l = "fail_376" -> [task EXCEPT !.error = Some(c.error)]
      [] l = "fail_377" -> [task EXCEPT !.error_details = c.details]
      [] l = "fail_378" -> [task EXCEPT !.updated_at = time]

fail_stmt(l, c, task, time) ==
    CASE l = "fail_375" -> [task EXCEPT !.state = FAILED]
      [] l = "fail_376" -> [task EXCEPT !.error = Some(c.error)]
      [] l = "fail_377" ->
           [task EXCEPT !.error_details =
               Some(IF TruthyDict(c.details) THEN c.details[1] ELSE EmptyDict)]
      [] l = "fail_378" -> [task EXCEPT !.updated_at = time]

Stmt(l, c, task, time) ==
    CASE c.op = "assign" -> assign_stmt(l, c, task, time)
      [] c.op = "update" -> update_stmt(l, c, task, time)
      [] c.op = "complete" -> complete_stmt(l, c, task, time)
      [] c.op = "cancel" -> cancel_stmt(l, c, task, time)
      [] c.op = "fail" -> fail_stmt(l, c, task, time)

(* The legality check each operation makes on the task it found. *)
AssignIllegal(c, task) == task.state \notin assignable_states

UpdateIllegal_unknown_state_ignored(c, task) ==
    /\ c.new_state \in TaskState
    /\ c.new_state \notin VALID_TRANSITIONS(task.state)

UpdateIllegal(c, task) ==
    \/ c.new_state \notin TaskState
    \/ c.new_state \notin VALID_TRANSITIONS(task.state)

CompleteIllegal_only_terminal(c, task) == task.state \in terminal_states

CompleteIllegal(c, task) == task.state \notin completable_states

CancelIllegal_never(c, task) == FALSE

CancelIllegal(c, task) == task.state \in terminal_states

FailIllegal_unless_cancelled(c, task) == task.state \in {COMPLETED, FAILED}

FailIllegal(c, task) == task.state \in terminal_states

Illegal(c, task) ==
    CASE c.op = "assign" -> AssignIllegal(c, task)
      [] c.op = "update" -> UpdateIllegal(c, task)
      [] c.op = "complete" -> CompleteIllegal(c, task)
      [] c.op = "cancel" -> CancelIllegal(c, task)
      [] c.op = "fail" -> FailIllegal(c, task)

Lookup_writes_before_check(t) ==
    LET id == call[t].id
    IN IF id \notin DOMAIN tasks
       THEN Raise(t, "TaskNotFoundError")
       ELSE IF Illegal(call[t], obj[tasks[id]])
            THEN /\ obj' = [obj EXCEPT ![tasks[id]].status_message = Some(Str("rejected"))]
                 /\ Goto(t, "exit")
                 /\ ret' = [ret EXCEPT ![t] = Raised("InvalidTaskStateError")]
                 /\ UNCHANGED <<tasks, lock, call, loc, now>>
            ELSE /\ loc' = [loc EXCEPT ![t] = Some(tasks[id])]
                 /\ Goto(t, Body(call[t].op)[1])
                 /\ UNCHANGED <<tasks, obj, lock, call, ret, now>>

(* self.tasks.get(task_id); if not task: raise TaskNotFoundError; then the
   operation's own legality check, raising InvalidTaskStateError. *)
Lookup(t) ==
    LET id == call[t].id
    IN IF id \notin DOMAIN tasks
       THEN Raise(t, "TaskNotFoundError")
       ELSE IF Illegal(call[t], obj[tasks[id]])
            THEN Raise(t, "InvalidTaskStateError")
            ELSE /\ loc' = [loc EXCEPT ![t] = Some(tasks[id])]
                 /\ Goto(t, Body(call[t].op)[1])
                 /\ UNCHANGED <<tasks, obj, lock, call, ret, now>>

Index(l, body) == CHOOSE i \in 1..Len(body) : body[i] = l

(* The statement that follows l in its operation; "exit" after the last one. *)
After(l, op) ==
    IF Index(l, Body(op)) = Len(Body(op)) THEN "exit" ELSE Body(op)[Index(l, Body(op)) + 1]

(* One statement `task.<field> = v` through the local reference. *)
Write(t) ==
    /\ pc[t] \in {Body(call[t].op)[i] : i \in 1..Len(Body(call[t].op))}
    /\ obj' = [obj EXCEPT ![loc[t][1]] = Stmt(pc[t], call[t], Cur(t), now)]
    /\ Goto(t, After(pc[t], call[t].op))
    /\ ret' = [ret EXCEPT ![t] =
                 IF After(pc[t], call[t].op) = "exit" THEN Returned(loc[t]) ELSE ret[t]]
    /\ UNCHANGED <<tasks, lock, call, loc, now>>

assign_task(t) ==
    /\ call[t].op = "assign"
    /\ \/ pc[t] = "assign_203" /\ Lookup(t)
       \/ Write(t)

update_task_status(t) ==
    /\ call[t].op = "update"
    /\ \/ pc[t] = "update_243" /\ Lookup(t)
       \/ Write(t)

complete_task(t) ==
    /\ call[t].op = "complete"
    /\ \/ pc[t] = "complete_294" /\ Lookup(t)
       \/ Write(t)

cancel_task(t) ==
    /\ call[t].op = "cancel"
    /\ \/ pc[t] = "cancel_329" /\ Lookup(t)
       \/ Write(t)

fail_task(t) ==
    /\ call[t].op = "fail"
    /\ \/ pc[t] = "fail_365" /\ Lookup(t)
       \/ Write(t)

delete_task_keeps_active(t) ==
    /\ pc[t] = "delete_462"
    /\ IF call[t].id \in DOMAIN tasks /\ obj[tasks[call[t].id]].state \in terminal_states
       THEN /\ tasks' = DictDel(tasks, call[t].id)
            /\ ret' = [ret EXCEPT ![t] = ReturnedBool(TRUE)]
       ELSE /\ tasks' = tasks
            /\ ret' = [ret EXCEPT ![t] = ReturnedBool(FALSE)]
    /\ Goto(t, "exit")
    /\ UNCHANGED <<obj, lock, call, loc, now>>

delete_task(t) ==
    /\ pc[t] = "delete_462"
    /\ IF call[t].id \in DOMAIN tasks
       THEN /\ tasks' = DictDel(tasks, call[t].id)
            /\ ret' = [ret EXCEPT ![t] = ReturnedBool(TRUE)]
       ELSE /\ tasks' = tasks
            /\ ret' = [ret EXCEPT ![t] = ReturnedBool(FALSE)]
    /\ Goto(t, "exit")
    /\ UNCHANGED <<obj, lock, call, loc, now>>

(* The query operations, lines 382-449: no lock is taken. *)
CallQuery(t, c) ==
    /\ pc[t] = "idle"
    /\ call' = [call EXCEPT ![t] = c]
    /\ loc' = [loc EXCEPT ![t] = None]
    /\ ret' = [ret EXCEPT ![t] = NoRet]
    /\ Goto(t, "query")
    /\ UNCHANGED <<tasks, obj, lock, now>>

Stored == {tasks[k] : k \in DOMAIN tasks}

(* get_task is one dict.get and list_tasks one list(...) call: each runs to
   its end without another thread running in between. *)
QueryResult(c) ==
    CASE c.op = "get_task" ->
           Returned(IF c.id \in DOMAIN tasks THEN Some(tasks[c.id]) ELSE None)
      [] c.op = "list_tasks" -> ReturnedList(Stored)

Filters == {"get_tasks_by_agent", "get_tasks_by_state", "get_active_tasks"}

Query(t) ==
    /\ pc[t] = "query"
    /\ call[t].op \notin Filters
    /\ ret' = [ret EXCEPT ![t] = QueryResult(call[t])]
    /\ Goto(t, "return")
    /\ UNCHANGED <<tasks, obj, lock, call, loc, now>>

(* The condition of the list comprehension of each filter. *)
Selects(c, task) ==
    CASE c.op = "get_tasks_by_agent" -> task.assigned_to = Some(c.agent)
      [] c.op = "get_tasks_by_state" -> task.state = c.new_state
      [] c.op = "get_active_tasks" -> task.state \notin terminal_states

(* A filter starts: get_tasks_by_state returns [] when TaskState(state)
   raises ValueError; otherwise the comprehension opens an iterator on
   self.tasks.values(), which notes the size of the dict.  loc[t] is
   <<the key last yielded, the size noted, the number of values yielded>>;
   a dict yields in insertion order, which is the order of the identifiers. *)
Iterate(t) ==
    /\ pc[t] = "query"
    /\ call[t].op \in Filters
    /\ ret' = [ret EXCEPT ![t] = ReturnedList({})]
    /\ IF call[t].op = "get_tasks_by_state" /\ call[t].new_state \notin TaskState
       THEN Goto(t, "return") /\ UNCHANGED loc
       ELSE /\ Goto(t, "iter")
            /\ loc' = [loc EXCEPT ![t] = <<0, Cardinality(DOMAIN tasks), 0>>]
    /\ UNCHANGED <<tasks, obj, lock, call, now>>

Unvisited(t) == {k \in DOMAIN tasks : k > loc[t][1]}

Changed(t) ==
    /\ Goto(t, "return")
    /\ ret' = [ret EXCEPT ![t] = Raised("RuntimeError")]
    /\ UNCHANGED <<tasks, obj, lock, call, loc, now>>

(* One round of the comprehension: the iterator raises RuntimeError when the
   dict no longer has the size noted; otherwise it yields the next value, on
   which the condition is evaluated, or it is exhausted and the list is
   returned.  When it has yielded as many values as the size noted and the
   dict still has a later entry, it yields that entry or raises RuntimeError,
   depending on the interpreter. *)
NextTask(t) ==
    /\ pc[t] = "iter"
    /\ IF Cardinality(DOMAIN tasks) # loc[t][2]
       THEN Changed(t)
       ELSE IF Unvisited(t) = {}
            THEN /\ Goto(t, "return")
                 /\ UNCHANGED <<tasks, obj, lock, call, loc, ret, now>>
            ELSE \/ loc[t][3] = loc[t][2] /\ Changed(t)
                 \/ LET k == CHOOSE k \in Unvisited(t) : \A j \in Unvisited(t) : k <= j
                    IN /\ loc' = [loc EXCEPT ![t] = <<k, loc[t][2], loc[t][3] + 1>>]
                       /\ ret' = [ret EXCEPT ![t] =
                                     IF Selects(call[t], obj[tasks[k]])
                                     THEN ReturnedList(ret[t].refs \cup {tasks[k]})
                                     ELSE ret[t]]
                       /\ UNCHANGED <<tasks, obj, lock, pc, call, now>>

(* The query's result reaches the caller. *)
Return(t) ==
    /\ pc[t] = "return"
    /\ call' = [call EXCEPT ![t] = NoCall]
    /\ ret' = [ret EXCEPT ![t] = NoRet]
    /\ Goto(t, "idle")
    /\ UNCHANGED <<tasks, obj, lock, loc, now>>

(* Every statement a thread can execute once it is inside an operation. *)
Step(t) ==
    \/ create_task(t)
    \/ assign_task(t)
    \/ update_task_status(t)
    \/ complete_task(t)
    \/ cancel_task(t)
    \/ fail_task(t)
    \/ delete_task(t)
    \/ Exit(t)
    \/ Query(t)
    \/ Return(t)

(* ---------------------------------------------------------------------- *)
(* Calls the callers make                                                  *)
(* ---------------------------------------------------------------------- *)
(* Task ids callers name: the ids handed out so far, and 0, an id never handed out. *)
Ids == 0..MaxTasks

AssignCall(id, a) == [NoCall EXCEPT !.op = "assign", !.id = id, !.agent = a]
UpdateCall(id, s, p, m, md) ==
    [NoCall EXCEPT !.op = "update", !.id = id, !.new_state = s,
                   !.progress = p, !.message = m, !.metadata = md]
CompleteCall(id, res, ms) ==
    [NoCall EXCEPT !.op = "complete", !.id = id, !.result = res, !.ms = ms]
CancelCall(id, why) == [NoCall EXCEPT !.op = "cancel", !.id = id, !.reason = why]
FailCall(id, e, d) == [NoCall EXCEPT !.op = "fail", !.id = id, !.error = e, !.details = d]
DeleteCall(id) == [NoCall EXCEPT !.op = "delete", !.id = id]
GetCall(id) == [NoCall EXCEPT !.op = "get_task", !.id = id]
ByAgentCall(a) == [NoCall EXCEPT !.op = "get_tasks_by_agent", !.agent = a]
ByStateCall(s) == [NoCall EXCEPT !.op = "get_tasks_by_state", !.new_state = s]
ActiveCall == [NoCall EXCEPT !.op = "get_active_tasks"]
ListCall == [NoCall EXCEPT !.op = "list_tasks"]

LifeCalls ==
    {AssignCall(i, "agent-1") : i \in Ids}
    \cup {UpdateCall(i, s, None, None, None) : i \in Ids, s \in TaskState \cup {"bogus"}}
    \cup {CompleteCall(i, "r1", None) : i \in Ids}
    \cup {CancelCall(i, "why") : i \in Ids}
    \cup {FailCall(i, "boom", None) : i \in Ids}
    \cup {DeleteCall(i) : i \in Ids}

LifeQueries == {GetCall(i) : i \in Ids}

(* ---------------------------------------------------------------------- *)
(* message_client.py: MessageType, A2AMessage, MessageClient               *)
(*                                                                         *)
(* An inbound dictionary is a record of Optional fields: None for a key    *)
(* that is absent.  A text is a sequence of pieces.  A handler is a record *)
(* naming the type it was written for and what it does when called.        *)
(* ---------------------------------------------------------------------- *)
MaxHandlers == 3

MessageType == {"task_assignment", "status_update", "task_completion", "ping", "error"}

(* Payload values: a dict, JSON null, or something that is not a mapping. *)
PDict(d) == [kind |-> "dict", d |-> d]
PNull == [kind |-> "null", d |-> <<>>]
PText == [kind |-> "str", d |-> <<>>]

(* What uuid.uuid4() and datetime.utcnow().isoformat() + "Z" produce. *)
GeneratedUuid == "uuid4()"
GeneratedTimestamp == "utcnow()Z"

(* uuid.UUID(s): the strings of the model it parses; ValueError for the others. *)
UuidParses(s) == s \in {"123e4567-e89b-12d3-a456-426614174000", GeneratedUuid}

(* datetime.fromisoformat(s.replace("Z", "+00:00")): the strings it parses. *)
TimestampParses(s) == s \in {"2024-02-05T15:30:00Z", GeneratedTimestamp}

post_init_message_id_always_fresh(message_id) == GeneratedUuid

(* A2AMessage.__post_init__, lines 54-55. *)
post_init_message_id(message_id) == IF message_id = "" THEN GeneratedUuid ELSE message_id

(* A2AMessage.__post_init__, lines 56-59. *)
A2AMessage(version, message_id, timestamp, from_agent, to_agent, type, payload) ==
    [version |-> version,
     message_id |-> post_init_message_id(message_id),
     timestamp |-> IF timestamp = "" THEN GeneratedTimestamp ELSE timestamp,
     from_agent |-> from_agent,
     to_agent |-> to_agent,
     type |-> type,
     payload |-> IF payload.kind = "null" THEN PDict(EmptyDict) ELSE payload]

NoMessage ==
    [version |-> "", message_id |-> "", timestamp |-> "", from_agent |-> "",
     to_agent |-> "", type |-> "", payload |-> PNull]

Fault(exc, text) == [exc |-> exc, text |-> text, msg |-> NoMessage]

(* A2AMessage.from_dict: the exception it raises, or the message it builds. *)
from_dict(data) ==
    IF data.type = None THEN Fault("KeyError", <<"'type'">>)
    ELSE IF data.type[1] \notin MessageType
    THEN Fault("InvalidMessageError", <<"Unknown message type: ", data.type[1]>>)
    ELSE IF data.message_id = None THEN Fault("KeyError", <<"'message_id'">>)
    ELSE IF data.timestamp = None THEN Fault("KeyError", <<"'timestamp'">>)
    ELSE IF data.from = None THEN Fault("KeyError", <<"'from'">>)
    ELSE IF data.to = None THEN Fault("KeyError", <<"'to'">>)
    ELSE [exc |-> "", text |-> <<>>,
          msg |-> A2AMessage(IF data.version = None THEN "1.0.0" ELSE data.version[1],
                             data.message_id[1], data.timestamp[1],
                             data.from[1], data.to[1], data.type[1],
                             IF data.payload = None THEN PDict(EmptyDict)
                             ELSE data.payload[1])]

EnvelopeError_without_version_check(m) ==
    IF m.message_id = "" THEN Some(<<"Missing message_id">>)
    ELSE IF m.timestamp = "" THEN Some(<<"Missing timestamp">>)
    ELSE IF m.from_agent = "" THEN Some(<<"Missing from field">>)
    ELSE IF m.to_agent = "" THEN Some(<<"Missing to field">>)
    ELSE IF ~UuidParses(m.message_id)
    THEN Some(<<"Invalid message_id format: ", m.message_id>>)
    ELSE IF ~TimestampParses(m.timestamp)
    THEN Some(<<"Invalid timestamp format: ", m.timestamp>>)
    ELSE None

(* _validate_message, lines 400-430: the text of the InvalidMessageError it
   raises, or None. *)
EnvelopeError(m) ==
    IF m.version # "1.0.0" THEN Some(<<"Unsupported version: ", m.version>>)
    ELSE IF m.message_id = "" THEN Some(<<"Missing message_id">>)
    ELSE IF m.timestamp = "" THEN Some(<<"Missing timestamp">>)
    ELSE IF m.from_agent = "" THEN Some(<<"Missing from field">>)
    ELSE IF m.to_agent = "" THEN Some(<<"Missing to field">>)
    ELSE IF ~UuidParses(m.message_id)
    THEN Some(<<"Invalid message_id format: ", m.message_id>>)
    ELSE IF ~TimestampParses(m.timestamp)
    THEN Some(<<"Invalid timestamp format: ", m.timestamp>>)
    ELSE None

(* `for field in required: if field not in payload`: the first one missing. *)
FirstMissing(required, d) ==
    IF \A i \in 1..Len(required) : required[i] \in DOMAIN d THEN None
    ELSE Some(required[CHOOSE i \in 1..Len(required) :
                          /\ required[i] \notin DOMAIN d
                          /\ \A j \in 1..(i - 1) : required[j] \in DOMAIN d])

valid_priorities_without_urgent == {"low", "medium", "high"}

valid_priorities == {"low", "medium", "high", "urgent"}

valid_statuses == {"created", "assigned", "in_progress", "completed", "failed", "cancelled"}

(* _validate_payload, lines 445-493. *)
PayloadError(m) ==
    LET d == m.payload.d
    IN IF m.payload.kind # "dict" THEN Some(<<"Payload must be a dictionary">>)
       ELSE CASE m.type = "task_assignment" ->
                   LET miss == FirstMissing(<<"task_id", "task_type", "title",
                                              "description", "payload">>, d)
                   IN IF miss # None THEN Some(<<"Missing required field: ", miss[1]>>)
                      ELSE IF "priority" \in DOMAIN d /\ d["priority"] \notin valid_priorities
                      THEN Some(<<"Invalid priority: ", d["priority"]>>)
                      ELSE None
              [] m.type = "status_update" ->
                   IF "task_id" \notin DOMAIN d
                   THEN Some(<<"Missing required field: ", "task_id">>)
                   ELSE IF "status" \notin DOMAIN d
                   THEN Some(<<"Missing required field: ", "status">>)
                   ELSE IF d["status"] \notin valid_statuses
                   THEN Some(<<"Invalid status: ", d["status"]>>)
                   ELSE None
              [] m.type = "task_completion" ->
                   LET miss == FirstMissing(<<"task_id", "status", "result">>, d)
                   IN IF miss # None THEN Some(<<"Missing required field: ", miss[1]>>)
                      ELSE IF d["status"] \notin {"completed", "failed"}
                      THEN Some(<<"Invalid completion status: ", d["status"]>>)
                      ELSE None
              [] m.type = "ping" ->
                   IF "nonce" \notin DOMAIN d
                   THEN Some(<<"Missing required field: ", "nonce">>)
                   ELSE None
              [] OTHER -> None

_validate_message_without_payload(m) == EnvelopeError(m)

(* _validate_message: the envelope checks, then line 433. *)
_validate_message(m) ==
    IF EnvelopeError(m) # None THEN EnvelopeError(m) ELSE PayloadError(m)

NoOutcome == [status |-> "", message_id |-> "", error |-> <<>>, error_code |-> ""]

(* process_message, lines 371-388: the dictionaries it returns. *)
Success(m) == [NoOutcome EXCEPT !.status = "success", !.message_id = m.message_id]
Failure(text, code) ==
    [NoOutcome EXCEPT !.status = "error", !.error = text, !.error_code = code]

Caught_only_invalid_message(exc, text) ==
    IF exc = "InvalidMessageError" THEN Failure(text, "INVALID_MESSAGE_FORMAT")
    ELSE [NoOutcome EXCEPT !.status = "raised", !.error = text]

(* The except clauses of process_message, lines 377-388. *)
Caught(exc, text) ==
    IF exc = "InvalidMessageError" THEN Failure(text, "INVALID_MESSAGE_FORMAT")
    ELSE Failure(text, "INTERNAL_ERROR")

(* A response body: a JSON object, a JSON array, or text that is not JSON. *)
NoBody == [kind |-> "none", d |-> <<>>]
JsonObject(d) == [kind |-> "object", d |-> d]
JsonArray == [kind |-> "array", d |-> <<>>]
NotJson == [kind |-> "not_json", d |-> <<>>]

(* What a call of requests.post gives: a response, or an exception. *)
NoReply == [kind |-> "none", status |-> 0, body |-> NoBody, exc |-> ""]
Response(status, body) == [NoReply EXCEPT !.kind = "response", !.status = status, !.body = body]
Throws(exc) == [NoReply EXCEPT !.kind = "raise", !.exc = exc]

(* How send_message ends: it returns a body or raises. *)
NoResult == [kind |-> "none", exc |-> "", text |-> <<>>, body |-> NoBody]
Returns(body) == [NoResult EXCEPT !.kind = "return", !.body = body]
Raises(exc, text) == [NoResult EXCEPT !.kind = "raise", !.exc = exc, !.text = text]

NoHttp == [pc |-> "idle", message |-> NoMessage, posts |-> 0, reply |-> NoReply,
           result |-> NoResult]

MsgInit ==
    /\ message_handlers = [T \in MessageType |-> <<>>]
    /\ mpc = "idle"
    /\ message_dict = <<>>
    /\ message = NoMessage
    /\ idx = 0
    /\ invoked = <<>>
    /\ outcome = NoOutcome
    /\ http = NoHttp

Registered == {<<T, i>> : T \in MessageType, i \in 1..MaxHandlers} \cap
              {<<T, i>> \in MessageType \X (1..MaxHandlers) : i <= Len(message_handlers[T])}

Handler(T, does) == [for |-> T, does |-> does]

(* on_message, line 344; called between two envelopes. *)
on_message(T, handler) ==
    /\ mpc = "idle"
    /\ Cardinality(Registered) < MaxHandlers
    /\ message_handlers' = [message_handlers EXCEPT ![T] = Append(@, handler)]
    /\ UNCHANGED <<mpc, message_dict, message, idx, invoked, outcome>>

(* The transport hands an inbound dictionary to process_message. *)
Receive(data) ==
    /\ mpc = "idle"
    /\ message_dict' = data
    /\ mpc' = "from_dict"
    /\ UNCHANGED <<message_handlers, message, idx, invoked, outcome>>

(* process_message, line 358. *)
Decode ==
    /\ mpc = "from_dict"
    /\ LET got == from_dict(message_dict)
       IN IF got.exc = ""
          THEN /\ message' = got.msg
               /\ mpc' = "validate"
               /\ outcome' = outcome
          ELSE /\ message' = message
               /\ mpc' = "done"
               /\ outcome' = Caught(got.exc, got.text)
    /\ UNCHANGED <<message_handlers, message_dict, idx, invoked>>

(* process_message, lines 359 and 362. *)
Validate ==
    /\ mpc = "validate"
    /\ LET bad == _validate_message(message)
       IN IF bad = None
          THEN /\ mpc' = "dispatch"
               /\ idx' = 1
               /\ outcome' = outcome
          ELSE /\ mpc' = "done"
               /\ idx' = idx
               /\ outcome' = Caught("InvalidMessageError", bad[1])
    /\ UNCHANGED <<message_handlers, message_dict, message, invoked>>

HandlersFor_newest_first(T) ==
    [i \in 1..Len(message_handlers[T]) |->
        message_handlers[T][Len(message_handlers[T]) + 1 - i]]

(* self.message_handlers.get(message.type, []), line 362. *)
HandlersFor(T) == message_handlers[T]

HandlerRaised_propagates(handler) ==
    /\ mpc' = "done"
    /\ idx' = idx
    /\ outcome' = Caught("Exception", <<"Handler error">>)

(* `except Exception as e: print(...)`, lines 366-368: the loop goes on. *)
HandlerRaised(handler) ==
    /\ mpc' = "dispatch"
    /\ idx' = idx + 1
    /\ outcome' = outcome

(* One round of `for handler in handlers`, lines 363-368: the list is looked
   at again on every round, so a handler appended meanwhile is reached. *)
Dispatch ==
    /\ mpc = "dispatch"
    /\ idx <= Len(HandlersFor(message.type))
    /\ LET handler == HandlersFor(message.type)[idx]
       IN /\ invoked' = Append(invoked, handler)
          /\ CASE handler.does = "returns" ->
                    /\ mpc' = "dispatch" /\ idx' = idx + 1 /\ outcome' = outcome
                    /\ message_handlers' = message_handlers
               [] handler.does = "raises" ->
                    /\ HandlerRaised(handler)
                    /\ message_handlers' = message_handlers
               [] handler.does = "registers" ->
                    /\ Cardinality(Registered) < MaxHandlers
                    /\ mpc' = "dispatch" /\ idx' = idx + 1 /\ outcome' = outcome
                    /\ message_handlers' =
                          [message_handlers EXCEPT ![message.type] =
                              Append(@, Handler(message.type, "returns"))]
    /\ UNCHANGED <<message_dict, message>>

(* The loop is over: lines 371-375. *)
Finish ==
    /\ mpc = "dispatch"
    /\ idx > Len(HandlersFor(message.type))
    /\ mpc' = "done"
    /\ outcome' = Success(message)
    /\ UNCHANGED <<message_handlers, message_dict, message, idx, invoked>>

(* The outcome reaches the transport; the frame of the call is gone. *)
Reply ==
    /\ mpc = "done"
    /\ mpc' = "idle"
    /\ message_dict' = <<>>
    /\ message' = NoMessage
    /\ idx' = 0
    /\ invoked' = <<>>
    /\ outcome' = NoOutcome
    /\ UNCHANGED message_handlers

(* ---------------------------------------------------------------------- *)
(* Inbound dictionaries: a well-formed envelope of each type, and every    *)
(* dictionary that differs from one in at most two fields                  *)
(* ---------------------------------------------------------------------- *)
GoodPayload(T) ==
    CASE T = "task_assignment" ->
           [k \in {"task_id", "task_type", "title", "description", "payload"} |-> "x"]
      [] T = "status_update" ->
           [k \in {"task_id", "status"} |-> IF k = "status" THEN "in_progress" ELSE "x"]
      [] T = "task_completion" ->
           [k \in {"task_id", "status", "result"} |-> IF k = "status" THEN "completed" ELSE "x"]
      [] T = "ping" -> [k \in {"nonce"} |-> "x"]
      [] OTHER -> EmptyDict

GoodEnvelope(T) ==
    [version |-> Some("1.0.0"),
     message_id |-> Some("123e4567-e89b-12d3-a456-426614174000"),
     timestamp |-> Some("2024-02-05T15:30:00Z"),
     from |-> Some("agent-002"),
     to |-> Some("agent-001"),
     type |-> Some(T),
     payload |-> Some(PDict(GoodPayload(T)))]

(* Other payloads for type T: a required key gone, a value out of its
   enumeration, a priority, null, a string. *)
OtherPayloads(T) ==
    {PNull, PText}
    \cup {PDict(DictDel(GoodPayload(T), k)) : k \in DOMAIN GoodPayload(T)}
    \cup (IF T \in {"status_update", "task_completion"}
          THEN {PDict(DictSet(GoodPayload(T), "status", "paused"))} ELSE {})
    \cup (IF T = "task_assignment"
          THEN {PDict(DictSet(GoodPayload(T), "priority", p)) : p \in {"high", "asap"}}
          ELSE {})

Edits(T) ==
    {<<"none", None>>}
    \cup {<<"version", v>> : v \in {None, Some("2.0.0")}}
    \cup {<<"type", v>> : v \in {None, Some("invalid_type")}}
    \cup {<<"message_id", v>> : v \in {None, Some(""), Some("not-a-uuid")}}
    \cup {<<"timestamp", v>> : v \in {None, Some(""), Some("yesterday")}}
    \cup {<<"from", v>> : v \in {None, Some("")}}
    \cup {<<"to", v>> : v \in {None, Some("")}}
    \cup {<<"payload", None>>}
    \cup {<<"payload", Some(p)>> : p \in OtherPayloads(T)}

Edit(data, e) ==
    IF e[1] = "none" THEN data
    ELSE [k \in DOMAIN data |-> IF k = e[1] THEN e[2] ELSE data[k]]

Inbound ==
    UNION {{Edit(Edit(GoodEnvelope(T), e1), e2) : e1, e2 \in Edits(T)} : T \in MessageType}

HandlerTypes == {"ping", "status_update"}

NoScript == [plan |-> <<>>, snap |-> <<>>, todo |-> <<>>, out |-> <<>>]

msgVars == <<message_handlers, mpc, message_dict, message, idx, invoked, outcome, http>>

vars == <<tasks, obj, lock, pc, call, loc, ret, now, script,
          message_handlers, mpc, message_dict, message, idx, invoked, outcome, http>>

(* ---------------------------------------------------------------------- *)
(* Spec: concurrent callers of one TaskManager                             *)
(* ---------------------------------------------------------------------- *)
Init == TaskInit /\ script = NoScript /\ MsgInit

Next ==
    /\ \E t \in Threads :
        \/ CallCreate(t, None)
        \/ Begin(t)
        \/ call[t].op = "create" /\ Acquire(t, call[t])
        \/ \E c \in LifeCalls : Acquire(t, c)
        \/ \E c \in LifeQueries : CallQuery(t, c)
        \/ Step(t)
    /\ UNCHANGED script
    /\ UNCHANGED msgVars

Spec == Init /\ [][Next]_vars

MsgNext ==
    /\ \/ \E T \in HandlerTypes, does \in {"returns", "raises", "registers"} :
             on_message(T, Handler(T, does))
       \/ \E data \in Inbound : Receive(data)
       \/ Decode
       \/ Validate
       \/ Dispatch
       \/ Finish
       \/ Reply
    /\ UNCHANGED <<taskVars, script, http>>

SpecMsg == Init /\ [][MsgNext]_vars

(* ---------------------------------------------------------------------- *)
(* Properties of the lifecycle                                             *)
(* ---------------------------------------------------------------------- *)
Terminal == {"completed", "failed", "cancelled"}

InvalidState == Raised("InvalidTaskStateError")

(* The state an operation tries to move its task to. *)
Target(c) ==
    CASE c.op = "assign" -> "assigned"
      [] c.op = "update" -> c.new_state
      [] c.op = "complete" -> "completed"
      [] c.op = "cancel" -> "cancelled"
      [] c.op = "fail" -> "failed"

Table(s) ==
    CASE s = "created" -> {"assigned", "cancelled"}
      [] s = "assigned" -> {"in_progress", "cancelled", "failed"}
      [] s = "in_progress" -> {"completed", "failed", "cancelled"}
      [] OTHER -> {}

(* The table with the two pairs complete_task and fail_task add to it. *)
TableWithShortcuts(s) ==
    Table(s) \cup (IF s = "assigned" THEN {"completed"} ELSE {})
             \cup (IF s = "created" THEN {"failed"} ELSE {})

Transitioning == {"assign", "update", "complete", "cancel", "fail"}

(* Thread t executes its lookup and legality check in this step, on a stored task. *)
Checks(t) ==
    /\ call[t].op \in Transitioning
    /\ pc[t] = Entry(call[t].op)
    /\ pc'[t] # pc[t]
    /\ call[t].id \in DOMAIN tasks

Found(t) == obj[tasks[call[t].id]]

NoTaskWritten == \A r \in DOMAIN obj : obj'[r] = obj[r]

(* C1 as claimed: every change of a task's state is a pair of the transition
   table of section 4.1, whichever operation makes it. *)
C1_OnlyTablePairs ==
    [][\A r \in DOMAIN obj :
          obj'[r].state # obj[r].state => obj'[r].state \in Table(obj[r].state)]_vars

(* C1 as amended: every change of a task's state is a pair of the table or one
   of ASSIGNED->COMPLETED (complete_task) and CREATED->FAILED (fail_task); an
   operation attempting any other change raises InvalidTaskStateError, and
   neither its check nor its exit writes a task. *)
C1_TransitionsLegal ==
    [][/\ \A r \in DOMAIN obj :
             obj'[r].state # obj[r].state
                 => obj'[r].state \in TableWithShortcuts(obj[r].state)
       /\ \A t \in Threads :
             /\ (Checks(t) /\ Target(call[t]) \notin TableWithShortcuts(Found(t).state))
                    => (ret'[t] = InvalidState /\ pc'[t] = "exit" /\ NoTaskWritten)
             /\ (pc[t] = "exit" /\ ret[t] = InvalidState) => NoTaskWritten]_vars

C1_Witness ==
    \E t \in Threads :
        /\ pc[t] = "exit" /\ ret[t] = InvalidState
        /\ call[t].op = "complete" /\ call[t].id \in DOMAIN tasks
        /\ \E r \in DOMAIN obj : obj[r].state = "completed" /\ obj[r].assigned_at # None

(* C2: a task in COMPLETED, FAILED or CANCELLED keeps its state, and every
   assign, update, complete, cancel and fail on it raises InvalidTaskStateError. *)
C2_TerminalAbsorbing ==
    [][/\ \A r \in DOMAIN obj :
             obj[r].state \in Terminal => obj'[r].state = obj[r].state
       /\ \A t \in Threads :
             (Checks(t) /\ Found(t).state \in Terminal)
                 => (ret'[t] = InvalidState /\ pc'[t] = "exit")]_vars

C2_Witness ==
    \E t \in Threads :
        /\ pc[t] = "exit" /\ ret[t] = InvalidState
        /\ call[t].op = "fail" /\ call[t].id \in DOMAIN tasks
        /\ Found(t).state = "cancelled"

(* ---------------------------------------------------------------------- *)
(* Running an operation in one piece                                       *)
(* ---------------------------------------------------------------------- *)
RECURSIVE Run(_, _, _, _)
(* The task once the statements from l to the end of the block have run. *)
Run(l, c, task, time) ==
    IF l = "exit" THEN task ELSE Run(After(l, c.op), c, Stmt(l, c, task, time), time)

(* The whole operation c on a store holding the one task `task` under c.id. *)
Apply(c, task, time) ==
    IF Illegal(c, task) THEN task ELSE Run(Body(c.op)[1], c, task, time)

Outcome(c, task) == IF Illegal(c, task) THEN "InvalidTaskStateError" ELSE "ok"

(* Thread u has written part of what its operation writes to its task. *)
MidMutation(u) ==
    /\ call[u].op \in Transitioning
    /\ pc[u] \in {Body(call[u].op)[i] : i \in 2..Len(Body(call[u].op))}
    /\ Cur(u) # Run(pc[u], call[u], Cur(u), now)

ResultRefs(rt) == rt.refs \cup {rt.val[i] : i \in DOMAIN rt.val}

(* C4 as claimed: a query never returns a record that another caller has
   written only in part (state already ASSIGNED and assigned_to still unset,
   state COMPLETED and result still unset). *)
C4_QueriesSeeNoPartialWrite ==
    [][\A t \in Threads :
          (pc[t] = "query" /\ pc'[t] = "return")
              => \A u \in Threads :
                    MidMutation(u) => loc[u][1] \notin ResultRefs(ret'[t])]_vars

(* ---------------------------------------------------------------------- *)
(* SpecRace: every thread makes one planned update_task_status call on the *)
(* same task, which has been created and possibly assigned and started     *)
(* ---------------------------------------------------------------------- *)
RaceTask == Task(1, EmptyDict, 0)

RaceStarts ==
    {RaceTask,
     Apply(AssignCall(1, "agent-1"), RaceTask, 0),
     Apply(UpdateCall(1, IN_PROGRESS, None, None, None),
           Apply(AssignCall(1, "agent-1"), RaceTask, 0), 0)}

RaceCalls ==
    {UpdateCall(1, st, p, m, md) :
        st \in {ASSIGNED, IN_PROGRESS, COMPLETED, CANCELLED},
        p \in {None, Some(3), Some(15)},
        m \in {None, Some(Str("halfway"))},
        md \in {None, Some([k \in {"step"} |-> 1])}}

RaceInit ==
    /\ Quiet
    /\ \E start \in RaceStarts, plan \in [Threads -> RaceCalls] :
          /\ obj = <<start>>
          /\ tasks = [k \in {1} |-> 1]
          /\ script = [plan |-> plan, snap |-> start,
                       todo |-> [t \in Threads |-> 1],
                       out |-> [t \in Threads |-> ""]]
    /\ MsgInit

RaceBegin(t) ==
    /\ script.todo[t] > 0
    /\ Begin(t)
    /\ script' = [script EXCEPT !.todo[t] = @ - 1]

RaceExit(t) ==
    /\ Exit(t)
    /\ script' = [script EXCEPT !.out[t] = IF ret[t].kind = "raise" THEN ret[t].exc ELSE "ok"]

RaceNext ==
    /\ \E t \in Threads :
        \/ RaceBegin(t)
        \/ Acquire(t, script.plan[t]) /\ UNCHANGED script
        \/ update_task_status(t) /\ UNCHANGED script
        \/ RaceExit(t)
    /\ UNCHANGED msgVars

SpecRace == RaceInit /\ [][RaceNext]_vars

(* The orders in which the threads' calls can run one after the other. *)
Orders == {o \in [1..NumThreads -> Threads] : \A i, j \in 1..NumThreads : o[i] = o[j] => i = j}

RECURSIVE Serial(_, _, _)
(* The task after the first n calls of order o, each run in one piece. *)
Serial(o, n, start) ==
    IF n = 0 THEN start ELSE Apply(script.plan[o[n]], Serial(o, n - 1, start), 0)

Visible(task) == <<task.state, task.progress, task.status_message, task.metadata>>

RaceOver == \A t \in Threads : script.todo[t] = 0 /\ pc[t] = "idle"

(* C3: when all the concurrent update_task_status calls on one task have
   returned, the stored state, progress, status_message and metadata, and the
   outcome of every call, are those of running the calls one after the other
   in some order. *)
C3_UpdatesSerialized ==
    RaceOver =>
        \E o \in Orders :
            /\ Visible(obj[1]) = Visible(Serial(o, NumThreads, script.snap))
            /\ \A n \in 1..NumThreads :
                  script.out[o[n]] = Outcome(script.plan[o[n]], Serial(o, n - 1, script.snap))

(* Both calls were legal on the task as it was at the start, and they disagree. *)
C3_Witness ==
    /\ RaceOver
    /\ \A t \in Threads : ~Illegal(script.plan[t], script.snap)
    /\ \E t, u \in Threads :
          /\ script.out[t] = "ok" /\ script.out[u] = "InvalidTaskStateError"
          /\ script.plan[t].progress # script.plan[u].progress
          /\ script.plan[u].progress # None

(* ---------------------------------------------------------------------- *)
(* SpecTerminal: every thread makes one planned call on the same task:     *)
(* all of them calls that end the task (complete_task, cancel_task,        *)
(* fail_task, update_task_status with a terminal target), or all of them   *)
(* assign_task calls, each for another agent                               *)
(* ---------------------------------------------------------------------- *)
TerminalCalls ==
    {CompleteCall(1, "r1", None), CancelCall(1, "why"), FailCall(1, "boom", None)}
    \cup {UpdateCall(1, st, None, None, None) : st \in {COMPLETED, FAILED, CANCELLED}}

Agent(t) == IF t = 1 THEN "agent-1" ELSE "agent-2"

TerminalPlans ==
    [Threads -> TerminalCalls] \cup {[t \in Threads |-> AssignCall(1, Agent(t))]}

TerminalStarts == RaceStarts \cup {Apply(CancelCall(1, "why"), RaceTask, 0)}

TerminalInit ==
    /\ Quiet
    /\ \E start \in TerminalStarts, plan \in TerminalPlans :
          /\ obj = <<start>>
          /\ tasks = [k \in {1} |-> 1]
          /\ script = [plan |-> plan, snap |-> start,
                       todo |-> [t \in Threads |-> 1],
                       out |-> [t \in Threads |-> ""]]
    /\ MsgInit

TerminalNext ==
    /\ \E t \in Threads :
        \/ RaceBegin(t)
        \/ Acquire(t, script.plan[t]) /\ UNCHANGED script
        \/ /\ \/ assign_task(t)
              \/ update_task_status(t)
              \/ complete_task(t)
              \/ cancel_task(t)
              \/ fail_task(t)
           /\ UNCHANGED script
        \/ RaceExit(t)
    /\ UNCHANGED msgVars

SpecTerminal == TerminalInit /\ [][TerminalNext]_vars

Succeeded == {t \in Threads : script.out[t] = "ok"}

Rejected == {t \in Threads : script.out[t] = "InvalidTaskStateError"}

Ending == \A t \in Threads : script.plan[t] \in TerminalCalls

Assigning == \A t \in Threads : script.plan[t].op = "assign"

(* C35 as claimed: when the racing calls have all returned, exactly one of
   them has succeeded and every other one has raised InvalidTaskStateError,
   for calls that end the task and for assign_task calls on a CREATED
   task, whose stored assignee is the agent of the call that succeeded. *)
C35_ExactlyOneWins ==
    (RaceOver /\ (Ending \/ (Assigning /\ script.snap.state = CREATED))) =>
        /\ Cardinality(Succeeded) = 1
        /\ Succeeded \cup Rejected = Threads
        /\ Assigning => \A t \in Succeeded : obj[1].assigned_to = Some(script.plan[t].agent)

(* C35: when the racing calls have all returned, at most one of them has
   succeeded and every other one has raised InvalidTaskStateError; one has
   succeeded exactly when one of the calls was legal in the state the task
   had before the race, and the task is then in the state that call asked
   for (with the agent of that call as assignee, for assign_task); when none
   was legal the task is as it was. *)
C35_AtMostOneWins ==
    (RaceOver /\ (Ending \/ Assigning)) =>
        /\ Cardinality(Succeeded) <= 1
        /\ Succeeded \cup Rejected = Threads
        /\ Succeeded # {} <=> \E t \in Threads : ~Illegal(script.plan[t], script.snap)
        /\ \A t \in Succeeded :
              /\ ~Illegal(script.plan[t], script.snap)
              /\ obj[1].state = Target(script.plan[t])
              /\ Assigning => obj[1].assigned_to = Some(script.plan[t].agent)
        /\ Succeeded = {} => obj[1] = script.snap

C35_Witness ==
    /\ RaceOver
    /\ script.snap.state = IN_PROGRESS
    /\ script.plan[1] = CompleteCall(1, "r1", None)
    /\ script.plan[2] = CancelCall(1, "why")
    /\ script.out[1] = "InvalidTaskStateError"
    /\ script.out[2] = "ok"
    /\ obj[1].state = CANCELLED /\ obj[1].result = None

(* ---------------------------------------------------------------------- *)
(* SpecLive: the callers of Spec on a store of at most LiveTasks tasks,    *)
(* under a fair scheduler: a thread that can run a statement eventually     *)
(* runs it, and a thread that finds the lock free again and again          *)
(* eventually gets it                                                      *)
(* ---------------------------------------------------------------------- *)
LiveTasks == 1

LiveCalls == {c \in LifeCalls : c.id <= LiveTasks}

LiveCreate(t) == Len(obj) < LiveTasks /\ CallCreate(t, None) /\ UNCHANGED <<script, msgVars>>

LiveBegin(t) == Begin(t) /\ UNCHANGED <<script, msgVars>>

LiveAcquire(t) ==
    /\ \/ call[t].op = "create" /\ Acquire(t, call[t])
       \/ \E c \in LiveCalls : Acquire(t, c)
    /\ UNCHANGED <<script, msgVars>>

LiveQuery(t) == \E c \in LifeQueries : CallQuery(t, c) /\ UNCHANGED <<script, msgVars>>

LiveStep(t) == Step(t) /\ UNCHANGED <<script, msgVars>>

LiveNext ==
    \E t \in Threads :
        LiveCreate(t) \/ LiveBegin(t) \/ LiveAcquire(t) \/ LiveQuery(t) \/ LiveStep(t)

SpecLive ==
    /\ Init
    /\ [][LiveNext]_vars
    /\ \A t \in Threads : WF_vars(LiveStep(t)) /\ SF_vars(LiveAcquire(t))

(* Thread t is between __enter__ and __exit__ of `with self.lock`. *)
InBlock(t) == pc[t] \notin {"idle", "lock", "query", "return"}

(* C5: a thread holds the lock exactly while it is inside a `with self.lock`
   block, so the lock is free whenever no operation is executing, also after
   an operation that raised; and under fair scheduling every operation that
   was started returns to its caller. *)
C5_LockReleasedOnEveryPath ==
    /\ [](\A t \in Threads : InBlock(t) <=> lock = Some(t))
    /\ []((\A t \in Threads : pc[t] = "idle") => lock = None)
    /\ \A t \in Threads : (pc[t] # "idle") ~> (pc[t] = "idle")

(* One caller's operation has raised and is about to leave the block while
   another caller waits for the lock. *)
C5_Witness ==
    \E t, u \in Threads :
        /\ pc[t] = "exit" /\ ret[t] = Raised("TaskNotFoundError")
        /\ pc[u] = "lock"

(* ---------------------------------------------------------------------- *)
(* SpecOps: concurrent callers on a store of at most OpsTasks tasks, with  *)
(* the arguments the operations' contracts depend on and a running clock.  *)
(* Each caller remembers the store and the time at which it got the lock.  *)
(* ---------------------------------------------------------------------- *)
OpsTasks == 1

(* Progress values callers pass, in tenths: below 0.0, inside, above 1.0. *)
Progresses == {0 - 5, 3, 15}

OpsCalls ==
    {AssignCall(i, a) : i \in 0..OpsTasks, a \in {"agent-1", "agent-2"}}
    \cup {UpdateCall(i, st, p, None, None) :
             i \in 0..OpsTasks, st \in TaskState \cup {"bogus"},
             p \in {None} \cup {Some(v) : v \in Progresses}}
    \cup {CompleteCall(i, "r1", None) : i \in 0..OpsTasks}
    \cup {CancelCall(i, "why") : i \in 0..OpsTasks}
    \cup {FailCall(i, "boom", d) :
             i \in 0..OpsTasks, d \in {None, Some([k \in {"code"} |-> 1])}}
    \cup {DeleteCall(i) : i \in 0..OpsTasks}

NoSnap == [tasks |-> <<>>, obj |-> <<>>, time |-> 0]

OpsInit ==
    /\ TaskInit
    /\ MsgInit
    /\ script = [NoScript EXCEPT !.snap = [t \in Threads |-> NoSnap]]

OpsCreate(t) == Len(obj) < OpsTasks /\ CallCreate(t, None) /\ UNCHANGED script

OpsBegin(t) == Begin(t) /\ UNCHANGED script

OpsAcquire(t) ==
    /\ \/ call[t].op = "create" /\ Acquire(t, call[t])
       \/ \E c \in OpsCalls : Acquire(t, c)
    /\ script' = [script EXCEPT !.snap[t] = [tasks |-> tasks, obj |-> obj, time |-> now]]

OpsStep(t) ==
    /\ Step(t)
    /\ script' = IF pc[t] = "exit" THEN [script EXCEPT !.snap[t] = NoSnap] ELSE script

OpsNext ==
    \/ /\ \E t \in Threads : OpsCreate(t) \/ OpsBegin(t) \/ OpsAcquire(t) \/ OpsStep(t)
       /\ UNCHANGED msgVars
    \/ Tick

SpecOps == OpsInit /\ [][OpsNext]_vars

(* ---------------------------------------------------------------------- *)
(* Contracts of the operations, under SpecOps: what a caller about to      *)
(* leave the block has returned or raised, and what it has done to the     *)
(* task, against the store as it was when the caller got the lock          *)
(* ---------------------------------------------------------------------- *)
Leaving(t, op) == pc[t] = "exit" /\ call[t].op = op

Pre(t) == script.snap[t]

Known(t) == call[t].id \in DOMAIN Pre(t).tasks

(* The task the call names, as it was and as it is. *)
Before(t) == Pre(t).obj[Pre(t).tasks[call[t].id]]
Now(t) == obj[Pre(t).tasks[call[t].id]]

NotFound == Raised("TaskNotFoundError")

ReturnsTask(t) == ret[t] = Returned(Some(Pre(t).tasks[call[t].id]))

Stamped(t, at) == at # None /\ Pre(t).time <= at[1] /\ at[1] <= now

(* C11: assign_task raises TaskNotFoundError on an unknown id; on a task
   that is not CREATED it raises InvalidTaskStateError and leaves the task,
   its assignee included, as it was; on a CREATED task it returns the task
   with state ASSIGNED, assigned_to the given agent and assigned_at stamped. *)
C11_AssignContract ==
    \A t \in Threads :
        Leaving(t, "assign") =>
            IF ~Known(t) THEN ret[t] = NotFound
            ELSE IF Before(t).state # "created"
            THEN ret[t] = InvalidState /\ Now(t) = Before(t)
            ELSE /\ ReturnsTask(t)
                 /\ Now(t).state = "assigned"
                 /\ Now(t).assigned_to = Some(call[t].agent)
                 /\ Stamped(t, Now(t).assigned_at)

C11_Witness ==
    \E t \in Threads :
        /\ Leaving(t, "assign") /\ Known(t)
        /\ call[t].agent = "agent-2"
        /\ Before(t).assigned_to = Some("agent-1")
        /\ ret[t] = InvalidState
        /\ Now(t).assigned_to = Some("agent-1")

(* C12: complete_task returns exactly when the task exists and is ASSIGNED
   or IN_PROGRESS, and then the task is COMPLETED with the given result and
   completed_at stamped; it raises TaskNotFoundError on an unknown id and
   InvalidTaskStateError in every other state, CREATED included, leaving the
   task as it was. *)
C12_CompleteContract ==
    \A t \in Threads :
        Leaving(t, "complete") =>
            IF ~Known(t) THEN ret[t] = NotFound
            ELSE IF Before(t).state \notin {"assigned", "in_progress"}
            THEN ret[t] = InvalidState /\ Now(t) = Before(t)
            ELSE /\ ReturnsTask(t)
                 /\ Now(t).state = "completed"
                 /\ Now(t).result = Some(call[t].result)
                 /\ Stamped(t, Now(t).completed_at)

C12_Witness ==
    \E t \in Threads :
        /\ Leaving(t, "complete") /\ Known(t)
        /\ Before(t).state = "created"
        /\ ret[t] = InvalidState
        /\ Now(t).state = "created" /\ Now(t).result = None

(* C13: cancel_task raises TaskNotFoundError on an unknown id and
   InvalidTaskStateError on a terminal task, which it leaves as it was; on a
   CREATED, ASSIGNED or IN_PROGRESS task it returns the task with state
   CANCELLED and status_message "Cancelled: <reason>". *)
C13_CancelContract ==
    \A t \in Threads :
        Leaving(t, "cancel") =>
            IF ~Known(t) THEN ret[t] = NotFound
            ELSE IF Before(t).state \in Terminal
            THEN ret[t] = InvalidState /\ Now(t) = Before(t)
            ELSE /\ ReturnsTask(t)
                 /\ Now(t).state = "cancelled"
                 /\ Now(t).status_message = Some(<<"Cancelled: ", call[t].reason>>)

C13_Witness ==
    \E t \in Threads :
        /\ Leaving(t, "cancel") /\ Known(t)
        /\ Before(t).state = "in_progress"
        /\ Now(t).state = "cancelled"
        /\ Now(t).status_message = Some(<<"Cancelled: ", "why">>)

(* C14: fail_task raises TaskNotFoundError on an unknown id and
   InvalidTaskStateError on a terminal task, which it leaves as it was; on a
   CREATED, ASSIGNED or IN_PROGRESS task it returns the task with state
   FAILED, the error message and the error details, an empty map when none
   were given. *)
C14_FailContract ==
    \A t \in Threads :
        Leaving(t, "fail") =>
            IF ~Known(t) THEN ret[t] = NotFound
            ELSE IF Before(t).state \in Terminal
            THEN ret[t] = InvalidState /\ Now(t) = Before(t)
            ELSE /\ ReturnsTask(t)
                 /\ Now(t).state = "failed"
                 /\ Now(t).error = Some(call[t].error)
                 /\ Now(t).error_details =
                       Some(IF call[t].details = None THEN <<>> ELSE call[t].details[1])

C14_Witness ==
    \E t \in Threads :
        /\ Leaving(t, "fail") /\ Known(t)
        /\ Before(t).state = "created"
        /\ call[t].details = None
        /\ Now(t).state = "failed"
        /\ Now(t).error_details = Some(<<>>)

(* C16 as claimed: after every update_task_status call that is given a
   progress p, the task's progress is max(0.0, min(1.0, p)), also when the
   call names the state the task is already in. *)
C16_ProgressStoredClamped ==
    \A t \in Threads :
        (Leaving(t, "update") /\ Known(t) /\ call[t].progress # None)
            => Now(t).progress = Max(0, Min(10, call[t].progress[1]))

(* C17: the progress of every task lies in [0.0, 1.0]. *)
C17_ProgressInRange ==
    \A r \in DOMAIN obj : 0 <= obj[r].progress /\ obj[r].progress <= 10

C17_Witness ==
    \E t \in Threads :
        /\ Leaving(t, "update") /\ Known(t)
        /\ call[t].progress = Some(15)
        /\ ret[t].kind = "task"
        /\ Now(t).progress = 10

(* C18: error and error_details are set only on a task whose state is
   FAILED, and only statements of fail_task write them. *)
C18_ErrorOnlyWhenFailed ==
    /\ [](\A r \in DOMAIN obj :
             (obj[r].error # None \/ obj[r].error_details # None)
                 => obj[r].state = "failed")
    /\ [][\A r \in DOMAIN obj :
             (obj'[r].error # obj[r].error \/ obj'[r].error_details # obj[r].error_details)
                 => \E t \in Threads :
                       /\ call[t].op = "fail" /\ loc[t] = Some(r)
                       /\ pc[t] \in {"fail_376", "fail_377"}]_vars

C18_Witness ==
    \E t \in Threads :
        /\ Leaving(t, "update") /\ Known(t)
        /\ Before(t).state = "failed"
        /\ Before(t).error = Some("boom")
        /\ ret[t] = InvalidState
        /\ Now(t).error = Some("boom")

(* C19: updated_at of a task never decreases and is never earlier than
   created_at; when assign_task, update_task_status, complete_task,
   cancel_task or fail_task returns, updated_at of its task was read from the
   clock during the call. *)
C19_UpdatedAtRefreshed ==
    /\ [][\A r \in DOMAIN obj : obj'[r].updated_at >= obj[r].updated_at]_vars
    /\ [](\A r \in DOMAIN obj : obj[r].created_at <= obj[r].updated_at)
    /\ [](\A t \in Threads :
             (pc[t] = "exit" /\ call[t].op \in Transitioning /\ ret[t].kind = "task")
                 => /\ Pre(t).time <= Now(t).updated_at
                    /\ Now(t).updated_at <= now)

C19_Witness ==
    \E t \in Threads :
        /\ Leaving(t, "assign") /\ ret[t].kind = "task"
        /\ Before(t).updated_at = 0
        /\ Pre(t).time = 1
        /\ Now(t).updated_at = 1

(* C34: an operation that raises TaskNotFoundError or InvalidTaskStateError
   leaves the store as it was when the operation got the lock: the same
   keys, the same task under each key, and no field of any task written. *)
C34_FailedCallWritesNothing ==
    \A t \in Threads :
        (pc[t] = "exit" /\ ret[t].kind = "raise") =>
            /\ ret[t].exc \in {"TaskNotFoundError", "InvalidTaskStateError"}
            /\ tasks = Pre(t).tasks
            /\ \A r \in DOMAIN Pre(t).obj : obj[r] = Pre(t).obj[r]

C34_Witness ==
    \E t \in Threads :
        /\ Leaving(t, "update") /\ Known(t)
        /\ ret[t] = InvalidState
        /\ call[t].new_state = ASSIGNED /\ call[t].progress = Some(15)
        /\ Before(t).state = ASSIGNED /\ Before(t).progress = 3
        /\ Now(t) = Before(t)

(* C21: update_task_status raises TaskNotFoundError on an unknown id,
   whatever the new_state; on a stored task and a new_state that is not one
   of the six states it raises InvalidTaskStateError and leaves the task as
   it was. *)
C21_UnknownStateRejected ==
    \A t \in Threads :
        Leaving(t, "update") =>
            /\ ~Known(t) => ret[t] = NotFound
            /\ (Known(t) /\ call[t].new_state \notin
                   {"created", "assigned", "in_progress", "completed", "failed", "cancelled"})
                  => ret[t] = InvalidState /\ Now(t) = Before(t)

C21_Witness ==
    \E t \in Threads :
        /\ Leaving(t, "update") /\ Known(t)
        /\ call[t].new_state = "bogus"
        /\ call[t].progress = Some(3)
        /\ Before(t).state = "assigned"
        /\ ret[t] = InvalidState
        /\ Now(t) = Before(t)

(* ---------------------------------------------------------------------- *)
(* SpecPatch: concurrent callers on a store of at most OpsTasks tasks that *)
(* are created with or without metadata, updated with or without a         *)
(* message and a metadata patch, and completed with or without an          *)
(* execution time                                                          *)
(* ---------------------------------------------------------------------- *)
Metadatas == {None, Some([k \in {"a", "c"} |-> 0])}

Patches == {None, Some([k \in {"a"} |-> 1]), Some([k \in {"a", "b"} |-> IF k = "a" THEN 2 ELSE 1])}

PatchCalls ==
    {UpdateCall(i, st, None, m, md) :
         i \in 1..OpsTasks, st \in {ASSIGNED, IN_PROGRESS},
         m \in {None, Some(Str("halfway"))}, md \in Patches}
    \cup {CompleteCall(i, "r1", ms) : i \in 1..OpsTasks, ms \in {None, Some(0), Some(7)}}

PatchCreate(t) ==
    /\ Len(obj) < OpsTasks
    /\ \E metadata \in Metadatas : CallCreate(t, metadata)
    /\ UNCHANGED script

PatchAcquire(t) ==
    /\ \/ call[t].op = "create" /\ Acquire(t, call[t])
       \/ \E c \in PatchCalls : Acquire(t, c)
    /\ script' = [script EXCEPT !.snap[t] = [tasks |-> tasks, obj |-> obj, time |-> now]]

PatchNext ==
    /\ \E t \in Threads : PatchCreate(t) \/ OpsBegin(t) \/ PatchAcquire(t) \/ OpsStep(t)
    /\ UNCHANGED msgVars

SpecPatch == OpsInit /\ [][PatchNext]_vars

(* C22: after a successful update_task_status the metadata is the old
   metadata overridden by the patch: every key of the patch has the patch's
   value, every other key keeps its value, no key is gone; without a patch
   the metadata is unchanged, and without a message the status_message is
   unchanged. *)
C22_MetadataMerged ==
    \A t \in Threads :
        (Leaving(t, "update") /\ ret[t].kind = "task") =>
            /\ call[t].metadata = None => Now(t).metadata = Before(t).metadata
            /\ call[t].metadata # None =>
                  LET patch == call[t].metadata[1]
                  IN /\ DOMAIN Now(t).metadata = DOMAIN Before(t).metadata \cup DOMAIN patch
                     /\ \A k \in DOMAIN patch : Now(t).metadata[k] = patch[k]
                     /\ \A k \in DOMAIN Before(t).metadata \ DOMAIN patch :
                           Now(t).metadata[k] = Before(t).metadata[k]
            /\ call[t].message = None => Now(t).status_message = Before(t).status_message
            /\ call[t].message # None => Now(t).status_message = call[t].message

C22_Witness ==
    \E t \in Threads :
        /\ Leaving(t, "update") /\ ret[t].kind = "task"
        /\ call[t].metadata = Some([k \in {"a"} |-> 1])
        /\ call[t].message = None
        /\ DOMAIN Before(t).metadata = {"a", "b", "c"}
        /\ Before(t).metadata["a"] = 2
        /\ Before(t).status_message # None
        /\ Now(t).metadata["a"] = 1 /\ Now(t).metadata["c"] = 0

(* C23 as claimed: after a successful complete_task that was given an
   execution_time_ms v, 0 included, the metadata maps "execution_time_ms" to
   v and is otherwise unchanged; given none, the metadata is unchanged. *)
C23_ExecutionTimeRecorded ==
    \A t \in Threads :
        (Leaving(t, "complete") /\ ret[t].kind = "task") =>
            /\ call[t].ms = None => Now(t).metadata = Before(t).metadata
            /\ call[t].ms # None =>
                  /\ "execution_time_ms" \in DOMAIN Now(t).metadata
                  /\ Now(t).metadata["execution_time_ms"] = call[t].ms[1]

(* ---------------------------------------------------------------------- *)
(* The store and its identifiers, under Spec                               *)
(* ---------------------------------------------------------------------- *)
(* Thread t executes line 183 in this step. *)
Inserts(t) == pc[t] = "create_183" /\ pc'[t] = "exit"

(* C15: create_task never raises; the task it inserts has an identifier no
   stored task has, is in the store afterwards under that identifier, and is
   in state CREATED with progress 0.0 and no assignee, result or error; the
   tasks already stored stay where they are and are not written. *)
C15_CreateContract ==
    /\ [][\A t \in Threads :
             Inserts(t) =>
                 LET r == loc[t][1]
                 IN /\ obj[r].id \notin DOMAIN tasks
                    /\ \A k \in DOMAIN tasks : obj[tasks[k]].id # obj[r].id
                    /\ DOMAIN tasks' = DOMAIN tasks \cup {obj[r].id}
                    /\ tasks'[obj[r].id] = r
                    /\ \A k \in DOMAIN tasks : tasks'[k] = tasks[k]
                    /\ obj' = obj
                    /\ obj[r].state = "created" /\ obj[r].progress = 0
                    /\ obj[r].assigned_to = None /\ obj[r].result = None
                    /\ obj[r].error = None /\ obj[r].error_details = None
                    /\ ret'[t] = Returned(Some(r))]_vars
    /\ [](\A t \in Threads : call[t].op = "create" => ret[t].kind # "raise")

C15_Witness ==
    \E t \in Threads :
        /\ pc[t] = "exit" /\ call[t].op = "create"
        /\ ret[t] = Returned(loc[t])
        /\ Cardinality(DOMAIN tasks) = 2
        /\ \E k \in DOMAIN tasks : obj[tasks[k]].state = "completed"
        /\ Cur(t).state = "created"

(* C20: the store maps every key to a task whose id is that key, so no two
   stored tasks share an id; and no step changes the id of a task. *)
C20_KeysAreIds ==
    /\ [](\A k \in DOMAIN tasks : obj[tasks[k]].id = k)
    /\ [](\A j, k \in DOMAIN tasks : obj[tasks[j]].id = obj[tasks[k]].id => j = k)
    /\ [][\A r \in DOMAIN obj : obj'[r].id = obj[r].id]_vars

C20_Witness ==
    /\ DOMAIN tasks = {1, 2}
    /\ obj[tasks[1]].state = "failed"
    /\ obj[tasks[2]].state = "cancelled"
    /\ \E t \in Threads : pc[t] = "delete_462" /\ call[t].id = 1

(* A thread runs the statement at label l of its operation. *)
Runs(t, l) == pc[t] = l /\ pc'[t] # l

Deletes(t) == Runs(t, "delete_462")

(* The task with identifier k was stored once and is stored no more: it was
   built, no create_task call is still holding it, and the store has no key k. *)
Deleted(k) ==
    /\ k \in 1..Len(obj)
    /\ k \notin DOMAIN tasks
    /\ \A t \in Threads : ~(call[t].op = "create" /\ loc[t] = Some(k))

(* C24: delete_task removes the key it is given whatever the state of the
   task and returns whether the key was stored; no other statement removes a
   key; once a key is deleted it stays out of the store, get_task returns
   None for it, every mutating operation raises TaskNotFoundError for it
   and writes nothing, and another delete_task returns False. *)
C24_DeleteContract ==
    [][/\ \A t \in Threads :
            Deletes(t) =>
               /\ ret'[t] = ReturnedBool(call[t].id \in DOMAIN tasks)
               /\ DOMAIN tasks' = DOMAIN tasks \ {call[t].id}
               /\ \A k \in DOMAIN tasks' : tasks'[k] = tasks[k]
               /\ obj' = obj
       /\ (\A t \in Threads : ~Deletes(t)) => DOMAIN tasks \subseteq DOMAIN tasks'
       /\ \A k \in 1..Len(obj) :
            Deleted(k) =>
               /\ Deleted(k)'
               /\ \A t \in Threads :
                    /\ (Deletes(t) /\ call[t].id = k) => ret'[t] = ReturnedBool(FALSE)
                    /\ (Runs(t, "query") /\ call[t] = GetCall(k)) => ret'[t] = Returned(None)
                    /\ ( /\ call[t].op \in {"assign", "update", "complete", "cancel", "fail"}
                         /\ call[t].id = k
                         /\ Runs(t, Entry(call[t].op)) )
                       => ret'[t] = NotFound /\ pc'[t] = "exit" /\ obj' = obj
      ]_vars

C24_Witness ==
    \E t \in Threads, k \in 1..Len(obj) :
        /\ Deleted(k)
        /\ obj[k].state = IN_PROGRESS
        /\ Leaving(t, "delete") /\ call[t].id = k
        /\ ret[t] = ReturnedBool(FALSE)

(* ---------------------------------------------------------------------- *)
(* SpecQuery: callers that run the query operations while other callers    *)
(* create, assign, complete and delete tasks; when a query has its  *)
(* result, script.snap records the store the result was taken from         *)
(* ---------------------------------------------------------------------- *)
QueryMutations ==
    {AssignCall(i, "agent-1") : i \in 1..MaxTasks}
    \cup {CompleteCall(i, "r1", None) : i \in 1..MaxTasks}
    \cup {DeleteCall(i) : i \in 1..MaxTasks}

Queries ==
    {GetCall(1), ByAgentCall("agent-1"), ActiveCall, ListCall,
     ByStateCall(ASSIGNED), ByStateCall("bogus")}

QueryCall(t) ==
    /\ \/ Len(obj) < MaxTasks /\ CallCreate(t, None)
       \/ Begin(t)
       \/ \E c \in Queries : CallQuery(t, c)
    /\ UNCHANGED script

QueryAcquire(t) ==
    /\ \/ call[t].op = "create" /\ Acquire(t, call[t])
       \/ \E c \in QueryMutations : Acquire(t, c)
    /\ UNCHANGED script

QueryStep(t) ==
    /\ Step(t) \/ Iterate(t) \/ NextTask(t)
    /\ script' = [script EXCEPT !.snap[t] =
                     IF pc'[t] = "return"
                     THEN [NoSnap EXCEPT !.obj = obj]
                     ELSE NoSnap]

QueryNext ==
    /\ \E t \in Threads : QueryCall(t) \/ QueryAcquire(t) \/ QueryStep(t)
    /\ UNCHANGED msgVars

SpecQuery == OpsInit /\ [][QueryNext]_vars

(* The tasks of the store that a query asks for. *)
Matching(c) ==
    CASE c.op = "get_task" ->
           Returned(IF c.id \in DOMAIN tasks THEN Some(tasks[c.id]) ELSE None)
      [] c.op = "list_tasks" -> ReturnedList(Stored)
      [] c.op = "get_tasks_by_agent" ->
           ReturnedList({r \in Stored : obj[r].assigned_to = Some(c.agent)})
      [] c.op = "get_tasks_by_state" ->
           ReturnedList({r \in Stored : c.new_state \in TaskState /\ obj[r].state = c.new_state})
      [] c.op = "get_active_tasks" ->
           ReturnedList({r \in Stored : obj[r].state \notin {COMPLETED, FAILED, CANCELLED}})

Answers(t) == pc[t] \in {"query", "iter"} /\ pc'[t] = "return"

(* C25 as claimed: a query that finishes returns exactly the tasks of the
   current store that it asks for (get_active_tasks the tasks that are not
   COMPLETED, FAILED or CANCELLED, get_tasks_by_state(s) the tasks in state
   s and none for an unrecognized s, get_tasks_by_agent(a) the tasks
   assigned to a, list_tasks all tasks), and writes nothing. *)
C25_QueriesExact ==
    [][\A t \in Threads :
          Answers(t) => /\ ret'[t] = Matching(call[t])
                        /\ tasks' = tasks /\ obj' = obj]_vars

(* C26 as claimed: the tasks of a query result that the caller holds have
   the field values they had when the query returned them. *)
C26_ResultsAreSnapshots ==
    \A t \in Threads :
        pc[t] = "return" =>
            \A r \in ResultRefs(ret[t]) : obj[r] = Pre(t).obj[r]

(* The stored tasks, looked at while no operation holds the lock. *)
Settled == IF lock = None THEN {obj[tasks[k]] : k \in DOMAIN tasks} ELSE {}

(* C36 as claimed: a stored task is COMPLETED exactly when it has a result,
   and exactly when it has a completed_at, whichever operation completed
   it. *)
C36_CompletedHasResult ==
    \A task \in Settled :
        /\ task.state = COMPLETED <=> task.result # None
        /\ task.state = COMPLETED <=> task.completed_at # None

(* C37 as claimed: a stored task in state ASSIGNED, IN_PROGRESS or
   COMPLETED has an assigned_to and an assigned_at, whichever operation
   assigned it, and a task in state CREATED has no assigned_to. *)
C37_AssignedHasAssignee ==
    \A task \in Settled :
        /\ task.state \in {ASSIGNED, IN_PROGRESS, COMPLETED}
              => task.assigned_to # None /\ task.assigned_at # None
        /\ task.state = CREATED => task.assigned_to = None

(* ---------------------------------------------------------------------- *)
(* Claims about process_message, under SpecMsg                             *)
(* ---------------------------------------------------------------------- *)
Decoded == from_dict(message_dict).exc = ""

Passed(m) == EnvelopeError(m) = None /\ PayloadError(m) = None

Answered == mpc = "done"

(* C6: a handler is invoked only after the envelope has passed the envelope
   checks and the payload checks of its type; an envelope that fails to
   decode or fails either check gets no handler invoked and an outcome with
   status error. *)
C6_HandlersOnlyAfterValidation ==
    /\ (mpc = "dispatch" \/ invoked # <<>>) => Decoded /\ Passed(message)
    /\ Answered /\ ~(Decoded /\ Passed(from_dict(message_dict).msg))
          => invoked = <<>> /\ outcome.status = "error"

C6_Witness ==
    /\ Answered
    /\ message.type = "ping"
    /\ EnvelopeError(message) = None
    /\ message.payload = PDict(EmptyDict)
    /\ message_handlers["ping"] # <<>>
    /\ invoked = <<>>
    /\ outcome.status = "error"

ReportsVersion == outcome.error # <<>> /\ outcome.error[1] = "Unsupported version: "

(* C7 as stated: every envelope whose version is not exactly "1.0.0", an
   absent version included, is answered with an error outcome that reports
   the unsupported version, and no handler is invoked. *)
C7_AnyOtherVersionRejected ==
    Answered /\ message_dict.version # Some("1.0.0")
        => outcome.status = "error" /\ ReportsVersion /\ invoked = <<>>

(* from_dict builds a message: the type is one of the five and the four
   fields it reads with data[...] are there. *)
Decodable(data) ==
    /\ data.type # None
    /\ data.type[1] \in MessageType
    /\ data.message_id # None /\ data.timestamp # None
    /\ data.from # None /\ data.to # None

(* C7: an envelope that carries a version other than "1.0.0" is answered
   with an error outcome and no handler is invoked, whatever its type and
   payload; the error reports the unsupported version when the envelope
   decodes (the unknown type or the absent field is reported otherwise).  An
   envelope with no version field is read as version 1.0.0 and is never
   answered with an unsupported version. *)
C7_OtherVersionRejected ==
    /\ Answered /\ message_dict.version \notin {None, Some("1.0.0")}
          => /\ outcome.status = "error"
             /\ invoked = <<>>
             /\ Decodable(message_dict)
                   => /\ outcome.error = <<"Unsupported version: ", message_dict.version[1]>>
                      /\ outcome.error_code = "INVALID_MESSAGE_FORMAT"
             /\ ~Decodable(message_dict) => ~ReportsVersion
    /\ Answered /\ message_dict.version = None => ~ReportsVersion

C7_Witness ==
    /\ Answered
    /\ message_dict.version = Some("2.0.0")
    /\ message_dict.type = Some("ping")
    /\ message_dict.payload = Some(PText)
    /\ message_handlers["ping"] # <<>>
    /\ invoked = <<>>
    /\ ReportsVersion

(* C8: on a validated envelope, every handler registered for its type after
   a handler that raises has still been invoked, at its own place in the
   order, when process_message answers. *)
C8_LaterHandlersStillInvoked ==
    Answered /\ Decoded /\ Passed(message)
        => \A i \in 1..Len(message_handlers[message.type]) :
              (\E k \in 1..(i - 1) : message_handlers[message.type][k].does = "raises")
                  => /\ i <= Len(invoked)
                     /\ invoked[i] = message_handlers[message.type][i]

C8_Witness ==
    /\ Answered
    /\ outcome.status = "success"
    /\ Len(invoked) = 3
    /\ invoked[1].does = "raises"
    /\ invoked[2].does = "returns"
    /\ invoked[3].does = "raises"

(* The payload contract of each type, as section 4.2 of the specification
   gives it. *)
Contract(T, d) ==
    CASE T = "task_assignment" ->
           /\ {"task_id", "task_type", "title", "description", "payload"} \subseteq DOMAIN d
           /\ "priority" \in DOMAIN d => d["priority"] \in {"low", "medium", "high", "urgent"}
      [] T = "status_update" ->
           /\ {"task_id", "status"} \subseteq DOMAIN d
           /\ d["status"] \in {"created", "assigned", "in_progress",
                               "completed", "failed", "cancelled"}
      [] T = "task_completion" ->
           /\ {"task_id", "status", "result"} \subseteq DOMAIN d
           /\ d["status"] \in {"completed", "failed"}
      [] T = "ping" -> "nonce" \in DOMAIN d
      [] OTHER -> TRUE

(* A structurally valid, correctly typed envelope: every field is there, the
   version is 1.0.0, the identifier is a UUID, the timestamp is ISO 8601,
   sender and recipient are not empty, the type is one of the five and the
   payload is a mapping that meets the contract of the type. *)
WellFormed(data) ==
    /\ \A k \in DOMAIN data : data[k] # None
    /\ data.version[1] = "1.0.0"
    /\ data.message_id[1] # "" /\ UuidParses(data.message_id[1])
    /\ data.timestamp[1] # "" /\ TimestampParses(data.timestamp[1])
    /\ data.from[1] # "" /\ data.to[1] # ""
    /\ data.type[1] \in MessageType
    /\ data.payload[1].kind = "dict"
    /\ Contract(data.type[1], data.payload[1].d)

(* C9: a structurally valid, correctly typed envelope is answered with
   status success and its own message_id, whatever the handlers of its type
   are and whether or not one of them raised. *)
C9_ValidEnvelopeSucceeds ==
    Answered /\ WellFormed(message_dict)
        => /\ outcome.status = "success"
           /\ outcome.message_id = message_dict.message_id[1]

C9_Witness ==
    /\ Answered
    /\ WellFormed(message_dict)
    /\ \E i \in 1..Len(invoked) : invoked[i].does = "raises"
    /\ outcome.status = "success"
    /\ outcome.message_id = "123e4567-e89b-12d3-a456-426614174000"

(* C10: when process_message answers a validated envelope of type T, the
   handlers it has invoked are exactly the handlers registered for T, each
   once, in the order of their registration; none of them was registered
   for another type. *)
C10_HandlersInRegistrationOrder ==
    Answered /\ outcome.status = "success"
        => /\ invoked = message_handlers[message.type]
           /\ \A i \in 1..Len(invoked) : invoked[i].for = message.type

C10_Witness ==
    /\ Answered
    /\ outcome.status = "success"
    /\ Len(invoked) = 2
    /\ invoked[1] # invoked[2]
    /\ \E T \in MessageType \ {message.type} : message_handlers[T] # <<>>
    /\ invoked = message_handlers[message.type]

(* ---------------------------------------------------------------------- *)
(* SpecPayload: _validate_message applied to a message built directly, as  *)
(* the tests build it, with every payload of the sets below                *)
(* ---------------------------------------------------------------------- *)
(* The dicts that have some of the keys ks, each with the value "x". *)
Having(ks) == {[k \in K |-> "x"] : K \in SUBSET ks}

(* d, with the key k left out or set to one of the values vs. *)
Varying(d, k, vs) == {d} \cup {DictSet(d, k, v) : v \in vs}

Payloads(T) ==
    CASE T = "task_assignment" ->
           UNION {Varying(d, "priority", {"urgent", "asap"}) :
                     d \in Having({"task_id", "task_type", "title", "description", "payload"})}
      [] T = "status_update" ->
           UNION {Varying(d, "status", {"created", "completed", "paused"}) :
                     d \in Having({"task_id"})}
      [] T = "task_completion" ->
           UNION {Varying(d, "status", {"created", "completed", "failed", "paused"}) :
                     d \in Having({"task_id", "result"})}
      [] T = "ping" -> Having({"nonce"})
      [] T = "error" -> Having({"code"})

PayloadInit ==
    /\ TaskInit
    /\ script = NoScript
    /\ message_handlers = [T \in MessageType |-> <<>>]
    /\ mpc = "validate"
    /\ message_dict = <<>>
    /\ \E T \in MessageType : \E d \in Payloads(T) :
          message = A2AMessage("1.0.0", "", "", "agent-001", "agent-002", T, PDict(d))
    /\ idx = 0
    /\ invoked = <<>>
    /\ outcome = NoOutcome
    /\ http = NoHttp

PayloadNext ==
    /\ Validate \/ Finish
    /\ UNCHANGED <<taskVars, script, http>>

SpecPayload == PayloadInit /\ [][PayloadNext]_vars

(* The fields of payload d that break the contract of type T. *)
Offending(T, d) ==
    LET required == CASE T = "task_assignment" ->
                           {"task_id", "task_type", "title", "description", "payload"}
                      [] T = "status_update" -> {"task_id", "status"}
                      [] T = "task_completion" -> {"task_id", "status", "result"}
                      [] T = "ping" -> {"nonce"}
                      [] T = "error" -> {}
        allowed == CASE T = "task_assignment" -> [priority |-> {"low", "medium", "high", "urgent"}]
                     [] T = "status_update" ->
                          [status |-> {"created", "assigned", "in_progress",
                                       "completed", "failed", "cancelled"}]
                     [] T = "task_completion" -> [status |-> {"completed", "failed"}]
                     [] OTHER -> <<>>
    IN (required \ DOMAIN d)
       \cup {k \in DOMAIN allowed \cap DOMAIN d : d[k] \notin allowed[k]}

(* The field an error text names. *)
Named(text) ==
    CASE text[1] = "Missing required field: " -> text[2]
      [] text[1] = "Invalid priority: " -> "priority"
      [] text[1] \in {"Invalid status: ", "Invalid completion status: "} -> "status"
      [] OTHER -> ""

Validated == mpc \in {"dispatch", "done"}

(* C29: the validator lets a mapping payload pass exactly when no field of
   it breaks the contract of the declared type (the required keys are
   there, and priority, or status, is in its enumeration); a payload that
   does not pass raises InvalidMessageError with a text that names one of
   the fields that break the contract. *)
C29_PayloadContract ==
    Validated =>
        LET T == message.type
            d == message.payload.d
        IN /\ (mpc = "dispatch" \/ outcome.status = "success") <=> Offending(T, d) = {}
           /\ Offending(T, d) = {} <=> Contract(T, d)
           /\ Offending(T, d) # {} =>
                 /\ outcome.status = "error"
                 /\ outcome.error_code = "INVALID_MESSAGE_FORMAT"
                 /\ Named(outcome.error) \in Offending(T, d)

C29_Witness ==
    /\ mpc = "done"
    /\ message.type = "task_completion"
    /\ message.payload.d = [k \in {"task_id", "status", "result"} |->
                               IF k = "status" THEN "created" ELSE "x"]
    /\ outcome.error = <<"Invalid completion status: ", "created">>

(* The inbound dictionary carries the field k and its value is v. *)
Carries(k, v) == message_dict[k] = Some(v)

(* The identifier, timestamp, sender or recipient the inbound dictionary
   carries breaks its rule: the identifier is not a UUID, the timestamp is
   not ISO 8601, the sender or the recipient is empty. *)
BadIdentity ==
    \/ message_dict.message_id # None /\ ~UuidParses(message_dict.message_id[1])
    \/ message_dict.timestamp # None /\ ~TimestampParses(message_dict.timestamp[1])
    \/ Carries("from", "")
    \/ Carries("to", "")

(* C27 as claimed: an envelope whose message_id is not a UUID or whose
   timestamp is not ISO 8601, the empty string included in both, or whose
   from or to is empty, is answered with status error and no handler is
   invoked. *)
C27_BadIdentityRejected ==
    Answered /\ BadIdentity => outcome.status = "error" /\ invoked = <<>>

(* The outcome is an error of the payload validator. *)
ReportsPayload ==
    /\ outcome.error # <<>>
    /\ outcome.error[1] \in {"Payload must be a dictionary", "Missing required field: ",
                            "Invalid priority: ", "Invalid status: ",
                            "Invalid completion status: "}

(* C28 as claimed: an envelope that decodes and breaks an envelope rule
   (version, message_id, timestamp, from, to) is answered with the error of
   that rule, never with an error of the payload validator, which is not
   run for it. *)
C28_EnvelopeErrorFirst ==
    ( /\ Answered
      /\ Decodable(message_dict)
      /\ BadIdentity \/ message_dict.version \notin {None, Some("1.0.0")} )
        => /\ outcome.status = "error"
           /\ ~ReportsPayload
           /\ EnvelopeError(message) # None

(* C30 as claimed: an envelope of any type whose payload is there and is
   not a mapping (null, a string) is answered with status error, no
   handler is invoked and no check of the type's contract is reported. *)
C30_NonMappingPayloadRejected ==
    ( /\ Answered
      /\ message_dict.payload # None
      /\ message_dict.payload[1].kind # "dict" )
        => /\ outcome.status = "error"
           /\ invoked = <<>>
           /\ outcome.error[1] # "Missing required field: "

(* The inbound dictionary has a type of the enumeration and lacks one of the
   fields from_dict reads with data[...]. *)
LacksField ==
    /\ message_dict.type # None /\ message_dict.type[1] \in MessageType
    /\ \E k \in {"message_id", "timestamp", "from", "to"} : message_dict[k] = None

(* The error text says that something is missing. *)
SaysMissing ==
    /\ outcome.error # <<>>
    /\ outcome.error[1] \in {"Missing message_id", "Missing timestamp", "Missing from field",
                            "Missing to field", "Missing type", "Missing required field: "}

(* C31 as claimed: an envelope that lacks message_id, timestamp, from or to
   is answered with status error and an error text that contains "Missing",
   and no handler is invoked. *)
C31_AbsentFieldReportedMissing ==
    Answered /\ LacksField
        => outcome.status = "error" /\ SaysMissing /\ invoked = <<>>

(* C32 as claimed: every envelope that is rejected (unknown type, wrong
   version, absent or malformed message_id, timestamp, from or to, payload
   that breaks its contract) is answered with the error code
   INVALID_MESSAGE_FORMAT. *)
C32_RejectionsAreInvalidFormat ==
    Answered /\ outcome.status = "error"
        => outcome.error_code = "INVALID_MESSAGE_FORMAT"

(* ---------------------------------------------------------------------- *)
(* SpecTotal: process_message on the inbound dictionaries of SpecMsg, with *)
(* handlers that return or raise; a call that has started keeps running    *)
(* ---------------------------------------------------------------------- *)
TotalRun ==
    /\ Decode \/ Validate \/ Dispatch \/ Finish
    /\ UNCHANGED <<taskVars, script, http>>

TotalNext ==
    \/ /\ \/ \E T \in HandlerTypes, does \in {"returns", "raises"} :
                on_message(T, Handler(T, does))
          \/ \E data \in Inbound : Receive(data)
          \/ Reply
       /\ UNCHANGED <<taskVars, script, http>>
    \/ TotalRun

SpecTotal == Init /\ [][TotalNext]_vars /\ WF_vars(TotalRun)

(* C33: process_message answers every inbound dictionary, whatever the
   handlers registered raise: every call that has started reaches its
   return, and what it returns is a record with status success, or status
   error and one of the two error codes; no exception leaves the call. *)
C33_ProcessMessageTotal ==
    /\ [](Answered =>
            \/ outcome.status = "success" /\ outcome.error_code = ""
            \/ /\ outcome.status = "error"
               /\ outcome.error_code \in {"INVALID_MESSAGE_FORMAT", "INTERNAL_ERROR"})
    /\ (mpc # "idle") ~> Answered

C33_Witness ==
    /\ Answered
    /\ message_dict.type = None
    /\ outcome.status = "error"
    /\ outcome.error_code = "INTERNAL_ERROR"
    /\ \E T \in HandlerTypes : \E i \in 1..Len(message_handlers[T]) :
          message_handlers[T][i].does = "raises"

(* ---------------------------------------------------------------------- *)
(* SpecDispatch: SpecMsg, with script.snap remembering the handlers that   *)
(* were registered for the envelope's type when its dispatch began         *)
(* ---------------------------------------------------------------------- *)
DispatchNext ==
    /\ \/ \E T \in HandlerTypes, does \in {"returns", "raises", "registers"} :
             on_message(T, Handler(T, does))
       \/ \E data \in Inbound : Receive(data)
       \/ Decode
       \/ Validate
       \/ Dispatch
       \/ Finish
       \/ Reply
    /\ script' = IF mpc = "validate" /\ mpc' = "dispatch"
                 THEN [script EXCEPT !.snap = HandlersFor(message.type)]
                 ELSE IF mpc' = "idle" THEN NoScript ELSE script
    /\ UNCHANGED <<taskVars, http>>

SpecDispatch == Init /\ [][DispatchNext]_vars

(* C38 as claimed: when process_message answers a validated envelope, the
   handlers it has invoked are the handlers that were registered for the
   envelope's type when dispatch began; a handler registered by one of them
   meanwhile has not been invoked. *)
C38_OnlyHandlersAtDispatchStart ==
    Answered /\ outcome.status = "success" => invoked = script.snap

(* ---------------------------------------------------------------------- *)
(* send_message, lines 112-168                                             *)
(* ---------------------------------------------------------------------- *)
AgentId == "agent-001"

Endpoint == "https://example.com/a2a"

(* The classes an exception is an instance of, as far as the except clauses
   of lines 162-167 tell them apart.  InvalidMessageError and ConnectionError
   are the classes of this module; the others are those of requests. *)
Ancestors_module_errors_are_transport(exc) ==
    CASE exc = "requests.Timeout" -> {"requests.Timeout", "requests.RequestException"}
      [] exc = "requests.ConnectTimeout" ->
           {"requests.ConnectionError", "requests.Timeout", "requests.RequestException"}
      [] exc = "requests.ConnectionError" ->
           {"requests.ConnectionError", "requests.RequestException"}
      [] exc \in {"requests.HTTPError", "requests.JSONDecodeError"} ->
           {"requests.RequestException"}
      [] exc \in {"InvalidMessageError", "ConnectionError"} -> {"requests.RequestException"}
      [] OTHER -> {}

Ancestors(exc) ==
    CASE exc = "requests.Timeout" -> {"requests.Timeout", "requests.RequestException"}
      [] exc = "requests.ConnectTimeout" ->
           {"requests.ConnectionError", "requests.Timeout", "requests.RequestException"}
      [] exc = "requests.ConnectionError" ->
           {"requests.ConnectionError", "requests.RequestException"}
      [] exc \in {"requests.HTTPError", "requests.JSONDecodeError"} ->
           {"requests.RequestException"}
      [] OTHER -> {}

(* An exception raised inside the try block, lines 145-167: the first except
   clause that matches turns it into ConnectionError; one that matches none
   leaves send_message as it is. *)
Handle(exc, text) ==
    IF "requests.Timeout" \in Ancestors(exc)
    THEN Raises("ConnectionError", <<"Timeout connecting to ", Endpoint>>)
    ELSE IF "requests.ConnectionError" \in Ancestors(exc)
    THEN Raises("ConnectionError", <<"Failed to connect to ", Endpoint>>)
    ELSE IF "requests.RequestException" \in Ancestors(exc)
    THEN Raises("ConnectionError", <<"Request failed: ">> \o text)
    ELSE Raises(exc, text)

(* response.json() on a body that is not JSON raises JSONDecodeError: a
   RequestException in recent versions of requests, a plain ValueError in
   older ones. *)
JsonFaults == {"requests.JSONDecodeError", "ValueError"}

(* Lines 152-161: what send_message does with the response, by status code. *)
StatusOutcomes(reply, to_agent) ==
    CASE reply.status = 200 ->
           IF reply.body.kind = "not_json"
           THEN {Handle(e, <<"Expecting value">>) : e \in JsonFaults}
           ELSE {Returns(reply.body)}
      [] reply.status = 400 ->
           CASE reply.body.kind = "not_json" ->
                  {Handle(e, <<"Expecting value">>) : e \in JsonFaults}
             [] reply.body.kind = "array" ->
                  {Handle("AttributeError", <<"'list' object has no attribute 'get'">>)}
             [] OTHER ->
                  {Handle("InvalidMessageError",
                          <<IF "error" \in DOMAIN reply.body.d THEN reply.body.d["error"]
                            ELSE "Invalid message">>)}
      [] reply.status = 404 ->
           {Handle("ConnectionError", <<"Agent ", to_agent, " not found">>)}
      [] reply.status = 429 -> {Handle("ConnectionError", <<"Rate limit exceeded">>)}
      [] OTHER -> {Handle("ConnectionError", <<"Unexpected response: ", reply.status>>)}

sendVars == <<message_handlers, mpc, message_dict, message, idx, invoked, outcome>>

(* Lines 133-139: the message is built; __post_init__ gives it an identifier
   and a timestamp. *)
Send(to_agent, message_type, payload) ==
    /\ http.pc = "idle"
    /\ http' = [NoHttp EXCEPT !.pc = "validate",
                              !.message = A2AMessage("1.0.0", "", "", AgentId, to_agent,
                                                     message_type, payload)]
    /\ UNCHANGED sendVars

SendValidate_never_raises ==
    /\ http.pc = "validate"
    /\ http' = [http EXCEPT !.pc = "post"]
    /\ UNCHANGED sendVars

(* Line 142: self._validate_message(message), outside the try block. *)
SendValidate ==
    /\ http.pc = "validate"
    /\ LET bad == _validate_message(http.message)
       IN http' = IF bad = None
                  THEN [http EXCEPT !.pc = "post"]
                  ELSE [http EXCEPT !.pc = "done",
                                    !.result = Raises("InvalidMessageError", bad[1])]
    /\ UNCHANGED sendVars

(* Lines 146-151: requests.post is called; it returns a response or raises,
   and what it raises goes through the except clauses. *)
Post(reply) ==
    /\ http.pc = "post"
    /\ http' = IF reply.kind = "raise"
               THEN [http EXCEPT !.posts = @ + 1, !.reply = reply, !.pc = "done",
                                 !.result = Handle(reply.exc, <<reply.exc>>)]
               ELSE [http EXCEPT !.posts = @ + 1, !.reply = reply, !.pc = "status"]
    /\ UNCHANGED sendVars

(* Lines 152-161. *)
Respond ==
    /\ http.pc = "status"
    /\ \E result \in StatusOutcomes(http.reply, http.message.to_agent) :
          http' = [http EXCEPT !.pc = "done", !.result = result]
    /\ UNCHANGED sendVars

(* The result reaches the caller of send_message. *)
SendReturn ==
    /\ http.pc = "done"
    /\ http' = NoHttp
    /\ UNCHANGED sendVars

(* ---------------------------------------------------------------------- *)
(* SpecSend: send_message called with valid and invalid payloads of every  *)
(* type, and a peer that answers in every way below                        *)
(* ---------------------------------------------------------------------- *)
Statuses == {200, 400, 404, 429, 500}

Bodies ==
    {JsonObject([k \in {"error"} |-> "Invalid payload"]),
     JsonObject([k \in {"status"} |-> "success"]),
     JsonArray, NotJson}

Replies ==
    {Response(st, b) : st \in Statuses, b \in Bodies}
    \cup {Throws(e) : e \in {"requests.Timeout", "requests.ConnectTimeout",
                             "requests.ConnectionError", "requests.HTTPError"}}

SendNext ==
    /\ \/ \E to_agent \in {"agent-002", ""}, T \in MessageType :
             \E payload \in {PDict(GoodPayload(T)), PDict(EmptyDict), PText} :
                Send(to_agent, T, payload)
       \/ SendValidate
       \/ \E reply \in Replies : Post(reply)
       \/ Respond
       \/ SendReturn
    /\ UNCHANGED <<taskVars, script>>

SpecSend == Init /\ [][SendNext]_vars

Sent == http.pc = "done"

(* C39: send_message calls requests.post only after the message it built
   has passed _validate_message, and at most once; a message that fails
   validation makes it raise InvalidMessageError with no call made, and a
   message that passes gets exactly one call, whatever the call gives. *)
C39_ValidateThenPostOnce ==
    /\ http.posts <= 1
    /\ (http.pc \in {"post", "status"} \/ http.posts > 0) => Passed(http.message)
    /\ Sent =>
          /\ http.posts = IF Passed(http.message) THEN 1 ELSE 0
          /\ ~Passed(http.message) =>
                /\ http.result.kind = "raise"
                /\ http.result.exc = "InvalidMessageError"
                /\ Some(http.result.text) = _validate_message(http.message)

C39_Witness ==
    /\ Sent
    /\ http.message.type = "ping"
    /\ http.message.payload = PDict(EmptyDict)
    /\ http.posts = 0
    /\ http.result = Raises("InvalidMessageError", <<"Missing required field: ", "nonce">>)

TransportText ==
    CASE "requests.Timeout" \in Ancestors(http.reply.exc) -> "Timeout connecting to "
      [] http.reply.exc = "requests.ConnectionError" -> "Failed to connect to "
      [] OTHER -> "Request failed: "

(* The mapping of the reply to the outcome, shared by both readings of C40:
   404, 429 and every other status raise ConnectionError, and so does every
   exception of requests.post. *)
OtherReplies ==
    /\ (http.reply.kind = "response" /\ http.reply.status \notin {200, 400}) =>
          /\ http.result.kind = "raise" /\ http.result.exc = "ConnectionError"
          /\ http.result.text[1] =
                CASE http.reply.status = 404 -> "Agent "
                  [] http.reply.status = 429 -> "Rate limit exceeded"
                  [] OTHER -> "Unexpected response: "
    /\ http.reply.kind = "raise" =>
          /\ http.result.kind = "raise" /\ http.result.exc = "ConnectionError"
          /\ http.result.text[1] = TransportText

PeerText == IF "error" \in DOMAIN http.reply.body.d THEN http.reply.body.d["error"]
            ELSE "Invalid message"

(* C40 as claimed: for a valid outbound message, status 200 returns the
   response body; 400 raises InvalidMessageError with the peer's error text
   or "Invalid message"; every other status and every exception of
   requests.post raises ConnectionError. *)
C40_ReplyMapped ==
    (Sent /\ http.posts = 1) =>
        /\ OtherReplies
        /\ (http.reply.kind = "response" /\ http.reply.status = 200) =>
              http.result = Returns(http.reply.body)
        /\ (http.reply.kind = "response" /\ http.reply.status = 400) =>
              /\ http.result.kind = "raise" /\ http.result.exc = "InvalidMessageError"
              /\ http.result.text = <<PeerText>>

(* C40: as above when the body of the response is JSON (status 200) or a
   JSON object (status 400); a body that is not JSON makes send_message
   raise ConnectionError "Request failed" or the decoder's ValueError, and
   a 400 whose body is a JSON array makes it raise AttributeError.  The
   InvalidMessageError and ConnectionError raised for a status are what the
   caller gets. *)
C40_ReplyMappedForJsonBodies ==
    (Sent /\ http.posts = 1) =>
        /\ OtherReplies
        /\ (http.reply.kind = "response" /\ http.reply.status = 200) =>
              IF http.reply.body.kind # "not_json"
              THEN http.result = Returns(http.reply.body)
              ELSE /\ http.result.kind = "raise"
                   /\ \/ http.result.exc = "ConnectionError" /\ http.result.text[1] = "Request failed: "
                      \/ http.result.exc = "ValueError"
        /\ (http.reply.kind = "response" /\ http.reply.status = 400) =>
              /\ http.result.kind = "raise"
              /\ CASE http.reply.body.kind = "object" ->
                        /\ http.result.exc = "InvalidMessageError"
                        /\ http.result.text = <<PeerText>>
                   [] http.reply.body.kind = "array" -> http.result.exc = "AttributeError"
                   [] OTHER ->
                        \/ /\ http.result.exc = "ConnectionError"
                           /\ http.result.text[1] = "Request failed: "
                        \/ http.result.exc = "ValueError"

C40_Witness ==
    /\ Sent
    /\ http.posts = 1
    /\ http.message.type = "task_assignment"
    /\ http.reply = Response(400, JsonObject([k \in {"status"} |-> "success"]))
    /\ http.result = Raises("InvalidMessageError", <<"Invalid message">>)

====
